---- MODULE Spec2Model ----
(***************************************************************************)
(* Partner side of the TLend iframe integration protocol (partner-mock.js, *)
(* embedded in RFC-001-TLEND-PARTNER-IFRAME-INTEGRATION.md, and the type   *)
(* guards of @tlend/iframe-types).                                         *)
(*                                                                         *)
(* The page is single threaded: every action below is one run-to-          *)
(* completion callback (a 'message' event, a timer, a button / console     *)
(* call, a wallet status change, the outcome of an awaited signing call).  *)
(*                                                                         *)
(* Timers are kept with the delay they were created with and their         *)
(* creation order.  A timer may fire only when no timer created before it  *)
(* with a delay that is not larger is still pending: such a timer is due   *)
(* no later, and the browser runs due timers in that order.  How much time *)
(* passes between two events is otherwise left open.                       *)
(*                                                                         *)
(* Request ids made by generateRequestId (time stamp plus nine random      *)
(* base-36 digits) are modelled as fresh numbers; 0 stands for an id that  *)
(* this page never issued.                                                 *)
(***************************************************************************)
EXTENDS Integers, Sequences, FiniteSets, TLC

NULL == "null"

\* ------------------------------------------------------------------ bounds
\* number of external events (inbound messages, user and wallet events) in a
\* run that starts from the freshly initialised page
MaxEvents == 2
\* the same, in a run that starts from a session with a wallet connected
MaxSessionEvents == 2
\* the same, in a run of the authentication flow alone
MaxAuthEvents == 3
\* the same, in a run of the repayment flow alone
MaxRepayEvents == 3
\* number of messages the iframe sends in a run of the RFC 7.2 handshake
MaxHandshakeEvents == 5
\* clock readings between two uses of the challenge payload codec
MaxClockTicks == 2
\* inbound messages in a run that tries every message type
MaxDirectionEvents == 2
\* external events in a run of a session that skips authentication
MaxSkipAuthEvents == 3

\* ------------------------------------------------------- program constants
TLEND_ORIGIN == "https://tlend.co"
STAGING_ORIGIN == "https://staging.tlend.co"
FOREIGN_ORIGIN == "https://foreign.example"

\* CONFIG.TLEND_ORIGINS as configured
TLEND_ORIGINS == {TLEND_ORIGIN, STAGING_ORIGIN}

\* origins an inbound event can carry
Origins == {TLEND_ORIGIN, FOREIGN_ORIGIN}

AUTH_CHECK_TIMEOUT == 5000
AUTH_CREDENTIALS_TIMEOUT == 30000
STYLES_DELAY == 100

\* the logo update scheduled ahead of the style update
LOGO_DELAY_Early == STYLES_DELAY \div 2

LOGO_DELAY == 200
AUTH_CHECK_DELAY_LOADED == 300
AUTH_CHECK_DELAY_READY == 400
AUTH_CREDENTIALS_DELAY == 500
READY_DELAY == 500
ONLOAD_READY_DELAY == 2000
MOCK_TX_DELAY == 2000

\* MessageTypes, TLend -> Partner
TLendTypes ==
    {"TLEND_LOADED", "AUTH_CHECK_RESPONSE", "AUTH_RESULT", "AUTH_REQUEST",
     "TLEND_READY", "REPAY_REQUEST", "ERROR"}

\* MessageTypes, Partner -> TLend
PartnerTypes ==
    {"STYLES_UPGRADE", "SET_LOGO", "AUTH_CHECK_REQUEST", "AUTH_CREDENTIALS",
     "DISCONNECT", "REPAY_RESULT"}

\* isValidMessageType: the thirteen protocol types
isValidMessageType(type) ==
    type \in {"TLEND_LOADED", "STYLES_UPGRADE", "SET_LOGO", "AUTH_CHECK_REQUEST",
              "AUTH_CHECK_RESPONSE", "AUTH_CREDENTIALS", "AUTH_RESULT",
              "AUTH_REQUEST", "TLEND_READY", "DISCONNECT", "REPAY_REQUEST",
              "REPAY_RESULT", "ERROR"}

\* values the type field of an inbound object can have besides a protocol
\* type: absent (or falsy), a truthy non-string, a string that is no type
TYPE_MISSING == "<missing>"
TYPE_NUMBER == "<number>"
TYPE_UNKNOWN == "NOT_A_TYPE"

\* isIframeMessage(value) of an inbound datum d
isIframeMessage(d) ==
    /\ d.object
    /\ d.type \notin {TYPE_MISSING, TYPE_NUMBER}
    /\ d.ts
    /\ isValidMessageType(d.type)

\* isTLendToPartnerMessage(msg) / isPartnerToTLendMessage(msg)
isTLendToPartnerMessage(msg) ==
    msg.type \in {"TLEND_LOADED", "AUTH_CHECK_RESPONSE", "AUTH_RESULT",
                  "AUTH_REQUEST", "TLEND_READY", "REPAY_REQUEST", "ERROR"}

isPartnerToTLendMessage(msg) ==
    msg.type \in {"STYLES_UPGRADE", "SET_LOGO", "AUTH_CHECK_REQUEST",
                  "AUTH_CREDENTIALS", "DISCONNECT", "REPAY_RESULT"}

\* the switch of handleMessage: the handler a type is passed to
Handler_WithoutError(type) ==
    CASE type = "TLEND_LOADED" -> "handleTLendLoaded"
      [] type = "AUTH_CHECK_RESPONSE" -> "handleAuthCheckResponse"
      [] type = "AUTH_RESULT" -> "handleAuthResult"
      [] type = "TLEND_READY" -> "handleTLendReady"
      [] type = "REPAY_REQUEST" -> "handleRepayRequest"
      [] type = "AUTH_REQUEST" -> "handleAuthRequest"
      [] OTHER -> "default"
Handler(type) ==
    CASE type = "TLEND_LOADED" -> "handleTLendLoaded"
      [] type = "AUTH_CHECK_RESPONSE" -> "handleAuthCheckResponse"
      [] type = "AUTH_RESULT" -> "handleAuthResult"
      [] type = "TLEND_READY" -> "handleTLendReady"
      [] type = "REPAY_REQUEST" -> "handleRepayRequest"
      [] type = "AUTH_REQUEST" -> "handleAuthRequest"
      [] type = "ERROR" -> "handleError"
      [] OTHER -> "default"

\* handleMessage of an inbound datum d: "-" when it returns before the switch
Dispatch(d) ==
    IF ~ d.object \/ d.type = TYPE_MISSING THEN "-" ELSE Handler(d.type)

Addresses == {"0:aaa", "0:bbb"}
RepayIds == {101, 102}
ErrorCodes == {"USER_REJECTED", "TRANSACTION_FAILED"}

\* ------------------------------------------- challenge payload (RFC 12.3)
\* Seconds since the epoch are kept as <<high, low>> 16-bit halves: the
\* encoded expiration is an unsigned 32-bit number, Date.now() is not.
Half == 65536

Plus(t, n) == <<t[1] + ((t[2] + n) \div Half), (t[2] + n) % Half>>

Before(a, b) == a[1] < b[1] \/ (a[1] = b[1] /\ a[2] < b[2])

\* generatePayload: 'Math.floor(Date.now() / 1000) + (15 * 60)'
PAYLOAD_TTL == 15 * 60
\* verifyPartnerPayload: 'now + 30 * 60'
MAX_WINDOW == 30 * 60
\* verifyPartnerPayload: 'payloadBuffer.length < 32'
PAYLOAD_LENGTH == 32
\* 'subarray(0, 28)' / 'subarray(4, 32)'
SIGNATURE_LENGTH == 28
DIGEST_LENGTH == 32
EXPIRATION_LENGTH == PAYLOAD_LENGTH - SIGNATURE_LENGTH

\* Buffer.writeUInt32BE accepts 0 .. 2^32 - 1 and throws a RangeError above
FitsUInt32(t) == t[1] < Half

writeUInt32BE_LittleEndian(t) ==
    <<t[2] % 256, t[2] \div 256, t[1] % 256, t[1] \div 256>>
writeUInt32BE(t) ==
    <<t[1] \div 256, t[1] % 256, t[2] \div 256, t[2] % 256>>

readUInt32BE(buf) == <<buf[1] * 256 + buf[2], buf[3] * 256 + buf[4]>>

\* Buffer.toString('hex'): two hex digits per byte, high nibble first.  A
\* hex digit is its value 0 .. 15; NOT_HEX is any other character.
NOT_HEX == 16

toHex(buf) ==
    [i \in 1..(2 * Len(buf)) |->
        IF i % 2 = 1 THEN buf[(i + 1) \div 2] \div 16 ELSE buf[i \div 2] % 16]

\* Buffer.from(s, 'hex'): whole pairs of hex digits up to the first pair that
\* is not hexadecimal; a trailing single digit is dropped
RECURSIVE HexPairs(_, _)
HexPairs(s, n) ==
    IF 2 * n + 2 > Len(s) THEN n
    ELSE IF s[2 * n + 1] = NOT_HEX \/ s[2 * n + 2] = NOT_HEX THEN n
    ELSE HexPairs(s, n + 1)

fromHex(s) ==
    [i \in 1..HexPairs(s, 0) |-> s[2 * i - 1] * 16 + s[2 * i]]

\* crypto.createHmac('sha256', key).update(data).digest(): a keyed digest of
\* DIGEST_LENGTH bytes.  SHA-256 itself is not modelled: the digest below is
\* a small keyed mixing function that depends on every byte of key and data.
RECURSIVE Mix(_, _)
Mix(bytes, acc) ==
    IF bytes = << >> THEN acc
    ELSE Mix(Tail(bytes), (acc * 31 + Head(bytes) + 1) % 65521)

hmacDigest(key, data) ==
    [i \in 1..DIGEST_LENGTH |->
        ((Mix(data, Mix(key, 7)) + 1) * (i + 2)) % 256]

Signature(key, expirationBuffer) ==
    SubSeq(hmacDigest(key, expirationBuffer), 1, SIGNATURE_LENGTH)

THROWN == <<NOT_HEX>>

\* generatePayload(sharedSecret) run at time now; THROWN when writeUInt32BE
\* throws
generatePayload(sharedSecret, now) ==
    LET expirationTime == Plus(now, PAYLOAD_TTL)
        expirationBuffer == writeUInt32BE(expirationTime)
    IN  IF ~ FitsUInt32(expirationTime) THEN THROWN
        ELSE toHex(expirationBuffer \o Signature(sharedSecret, expirationBuffer))

\* verifyPartnerPayload(payloadHex, sharedSecret) run at time now
verifyPartnerPayload(payloadHex, sharedSecret, now) ==
    LET payloadBuffer == fromHex(payloadHex)
        expirationTimestamp == readUInt32BE(payloadBuffer)
        receivedSignature ==
            SubSeq(payloadBuffer, EXPIRATION_LENGTH + 1, PAYLOAD_LENGTH)
        expectedSignature ==
            Signature(sharedSecret, writeUInt32BE(expirationTimestamp))
    IN  IF Len(payloadBuffer) < PAYLOAD_LENGTH THEN FALSE
        ELSE IF ~ Before(now, expirationTimestamp)
                \/ Before(Plus(now, MAX_WINDOW), expirationTimestamp)
        THEN FALSE
        ELSE receivedSignature = expectedSignature

\* shared secrets and clock readings of the runs that are checked
Secrets == {<<1, 2, 3>>, <<200>>}

Clocks == {<<27313, 100>>, <<27313, Half - 1>>, <<Half - 1, Half - 1000>>}

VARIABLES
    hasIframe,            \* an iframe element is in #iframeContainer
    onloadPending,        \* the iframe's load event has not fired yet
    iframeLoaded,         \* state.iframeLoaded
    tlendState,           \* state.tlendState
    walletConnected,      \* state.walletConnected
    walletAddress,        \* state.walletAddress
    walletAccount,        \* state.walletAccount (its address, or NULL)
    tonProof,             \* state.tonProof is set
    pendingRequests,      \* state.pendingRequests: set of [rid, type]
    pendingRepayRequest,  \* state.pendingRepayRequest
    tlendOrigin,          \* state.tlendOrigin
    allowedOrigins,       \* CONFIG.TLEND_ORIGINS (the handler pushes to it)
    tlendVersion,         \* state.tlendVersion
    tlendCapabilities,    \* state.tlendCapabilities
    skipAuth,             \* elements.skipAuth.value = 'yes'
    autoReadyMode,        \* elements.autoReadyMode.value
    timers,               \* pending setTimeout callbacks
    signs,                \* sendTransaction calls awaiting their outcome
    outbox,               \* messages handed to sendToTLend, in order
    nextId,               \* next fresh request id
    nextSeq,              \* next timer / signing call number
    replied,              \* ids whose pending entry a reply removed
    timedOut,             \* ids whose pending entry a timeout removed
    cleared,              \* ids whose pending entry a (re)load removed
    env,                  \* what the surroundings do in this run
    nEvents,              \* external events so far
    lastEvent,            \* the callback that ran last
    codec                 \* a challenge payload between issuer and verifier

vars ==
    <<hasIframe, onloadPending, iframeLoaded, tlendState, walletConnected,
      walletAddress, walletAccount, tonProof, pendingRequests,
      pendingRepayRequest, tlendOrigin, allowedOrigins, tlendVersion,
      tlendCapabilities, skipAuth, autoReadyMode, timers, signs, outbox,
      nextId, nextSeq, replied, timedOut, cleared,
      env, nEvents, lastEvent, codec>>

cfgVars == <<skipAuth, autoReadyMode>>
walletVars == <<walletConnected, walletAddress, walletAccount, tonProof>>
originVars == <<tlendOrigin, allowedOrigins>>
frameVars == <<hasIframe, onloadPending>>
loadedVars == <<iframeLoaded, tlendVersion, tlendCapabilities>>

\* ---------------------------------------------------------------- helpers

NoPayload ==
    [present |-> FALSE, authenticated |-> FALSE, matchesRequested |-> FALSE,
     success |-> FALSE, address |-> NULL, recoverable |-> FALSE,
     transaction |-> FALSE]

SomePayload == [NoPayload EXCEPT !.present = TRUE]

\* state.pendingRepayRequest === null
NoRepayRequest == [requestId |-> 0, payload |-> NoPayload]

\* an inbound datum (event.data)
Datum(type, rid, ts, payload) ==
    [object |-> TRUE, type |-> type, rid |-> rid, ts |-> ts, payload |-> payload]

NonObject ==
    [object |-> FALSE, type |-> TYPE_MISSING, rid |-> 0, ts |-> FALSE,
     payload |-> NoPayload]

NoDatum == NonObject

MsgEvent(origin, d, threw) ==
    [kind |-> "message", name |-> d.type, origin |-> origin, data |-> d,
     threw |-> threw, arg |-> "-", handler |-> Dispatch(d)]

TimerEvent(t) ==
    [kind |-> "timer", name |-> t.kind, origin |-> "-", data |-> NoDatum,
     threw |-> FALSE, arg |-> "-", handler |-> "-"]

UserEvent(name, arg) ==
    [kind |-> "user", name |-> name, origin |-> "-", data |-> NoDatum,
     threw |-> FALSE, arg |-> arg, handler |-> "-"]

\* an outbound message: the fields the handlers fill in
BaseMsg ==
    [type |-> "-", rid |-> 0, reason |-> "-", success |-> FALSE, code |-> "-",
     userCancelled |-> FALSE, hash |-> "-", explorerUrl |-> <<"-", "-">>,
     proof |-> "-", posted |-> FALSE, target |-> "-", cause |-> <<0, "-">>]

\* `https://tonscan.org/tx/${hash}`
ExplorerUrl(hash) == <<"https://tonscan.org/tx/", hash>>

\* sendToTLend: the message is posted only if the iframe element exists; the
\* target origin is the remembered origin, or the wildcard
sendToTLend(box, message, origin, iframe, cause) ==
    Append(box, [message EXCEPT !.posted = iframe,
                                !.target = IF origin = NULL THEN "*" ELSE origin,
                                !.cause = cause])

\* the external event a send or a timer goes back to: its number and name
Cause(name) == <<nEvents + 1, name>>

\* setTimeout(callback, delay)
Timer(seq, kind, delay, rid, cause) ==
    [seq |-> seq, kind |-> kind, delay |-> delay, rid |-> rid, cause |-> cause]

\* a pending timer can run now
CanFire(t) ==
    /\ t \in timers
    /\ ~ \E u \in timers : u.seq < t.seq /\ u.delay <= t.delay

\* state.pendingRequests.get(rid) is defined
HasPending(rid) == \E p \in pendingRequests : p.rid = rid

\* state.pendingRequests.delete(rid)
DeletePending(rid) == {p \in pendingRequests : p.rid # rid}

\* clearTimeout forgotten: the reply leaves the timer of its request armed
ClearTimeoutOf_Forgotten(rid) == timers

\* clearTimeout(pending.timeout) for the entry of rid
ClearTimeoutOf(rid) ==
    {t \in timers : ~ (t.kind \in {"authCheckTimeout", "authCredentialsTimeout"}
                        /\ t.rid = rid /\ HasPending(rid))}

\* handleMessage, lines 2481-2489: the first origin seen after a load is
\* remembered and added to the allow-list
OriginAfter(origin) == IF tlendOrigin = NULL THEN origin ELSE tlendOrigin

AllowedAfter(origin) ==
    IF tlendOrigin = NULL THEN allowedOrigins \cup {origin} ELSE allowedOrigins

AdoptOrigin(origin) ==
    /\ tlendOrigin' = OriginAfter(origin)
    /\ allowedOrigins' = AllowedAfter(origin)

External(ev) ==
    /\ nEvents < env.budget
    /\ nEvents' = nEvents + 1
    /\ lastEvent' = ev
    /\ UNCHANGED <<replied, timedOut, cleared, env, codec>>

Internal(ev) ==
    /\ nEvents' = nEvents
    /\ lastEvent' = ev
    /\ UNCHANGED <<replied, timedOut, cleared, env, codec>>

\* loadIframe / reloadIframe: records the ids whose entries clear() removes
ExternalLoad(ev, clears) ==
    /\ nEvents < env.budget
    /\ nEvents' = nEvents + 1
    /\ lastEvent' = ev
    /\ cleared' = IF clears THEN cleared \cup {p.rid : p \in pendingRequests}
                  ELSE cleared
    /\ UNCHANGED <<replied, timedOut, env, codec>>

\* an inbound reply: records the id when the reply removes a pending entry
ExternalReply(ev, rid) ==
    /\ nEvents < env.budget
    /\ nEvents' = nEvents + 1
    /\ lastEvent' = ev
    /\ UNCHANGED <<cleared, env, codec>>
    /\ replied' = IF HasPending(rid) THEN replied \cup {rid} ELSE replied
    /\ timedOut' = timedOut

\* a timeout callback: records the id when it removes a pending entry
InternalTimeout(ev, rid) ==
    /\ nEvents' = nEvents
    /\ lastEvent' = ev
    /\ UNCHANGED <<cleared, env, codec>>
    /\ timedOut' = IF HasPending(rid) THEN timedOut \cup {rid} ELSE timedOut
    /\ replied' = replied

\* ------------------------------------------------------------------- Init

\* the page after initialize(): no wallet, no iframe
FreshPage ==
    /\ hasIframe = FALSE
    /\ onloadPending = FALSE
    /\ iframeLoaded = FALSE
    /\ tlendState = NULL
    /\ walletConnected = FALSE
    /\ walletAddress = NULL
    /\ walletAccount = NULL
    /\ tonProof = FALSE
    /\ pendingRequests = {}
    /\ pendingRepayRequest = NoRepayRequest
    /\ tlendOrigin = NULL
    /\ allowedOrigins = TLEND_ORIGINS
    /\ tlendVersion = NULL
    /\ tlendCapabilities = {}
    /\ skipAuth \in BOOLEAN
    /\ autoReadyMode \in {"immediate", "on_ready"}
    /\ timers = {}
    /\ signs = {}
    /\ outbox = << >>
    /\ nextId = 1
    /\ nextSeq = 1
    /\ replied = {}
    /\ timedOut = {}
    /\ cleared = {}
    /\ env = [origins |-> Origins, tss |-> BOOLEAN, budget |-> MaxEvents]
    /\ nEvents = 0
    /\ lastEvent = UserEvent("initialize", "-")

\* no challenge payload is under way
CodecIdle ==
    [secret |-> << >>, now |-> <<0, 0>>, ticks |-> 0, payload |-> << >>,
     issued |-> << >>, expiration |-> <<0, 0>>, key |-> << >>,
     verdict |-> FALSE, op |-> "-"]

Init == FreshPage /\ codec = CodecIdle

\* a session under way: a wallet was connected (onStatusChange), loadIframe
\* ran and the iframe's load event fired; the remote has not spoken yet and
\* speaks from the TLend origin with well-formed envelopes
SessionInit(budget) ==
    /\ hasIframe = TRUE
    /\ onloadPending = FALSE
    /\ iframeLoaded = FALSE
    /\ tlendState = "LOADING"
    /\ walletConnected = TRUE
    /\ walletAddress = "0:aaa"
    /\ walletAccount = "0:aaa"
    /\ tonProof \in BOOLEAN
    /\ pendingRequests = {}
    /\ pendingRepayRequest = NoRepayRequest
    /\ tlendOrigin = NULL
    /\ allowedOrigins = TLEND_ORIGINS
    /\ tlendVersion = NULL
    /\ tlendCapabilities = {}
    /\ skipAuth \in BOOLEAN
    /\ autoReadyMode \in {"immediate", "on_ready"}
    /\ timers = IF autoReadyMode = "immediate" /\ skipAuth
                THEN {Timer(1, "onloadReady", ONLOAD_READY_DELAY, 0,
                            <<0, "iframeOnload">>)}
                ELSE {}
    /\ signs = {}
    /\ outbox = << >>
    /\ nextId = 1
    /\ nextSeq = 2
    /\ replied = {}
    /\ timedOut = {}
    /\ cleared = {}
    /\ env = [origins |-> {TLEND_ORIGIN}, tss |-> {TRUE}, budget |-> budget]
    /\ nEvents = 0
    /\ lastEvent = UserEvent("iframeOnload", "-")
    /\ codec = CodecIdle

InitSession == SessionInit(MaxSessionEvents)

InitAuth == SessionInit(MaxAuthEvents)

InitRepay == SessionInit(MaxRepayEvents)

\* a session with a wallet connected and skip-auth unset
InitHandshake == SessionInit(MaxHandshakeEvents) /\ skipAuth = FALSE

\* issuer and verifier share a secret and read the same clock; the page is
\* not involved
InitCodec ==
    /\ FreshPage
    /\ \E secret \in Secrets, now \in Clocks :
          codec = [CodecIdle EXCEPT !.secret = secret, !.now = now]

\* ------------------------------------------------------- outbound messages

\* sendStylesUpgrade
sendStylesUpgrade(box, origin, cause) ==
    sendToTLend(box, [BaseMsg EXCEPT !.type = "STYLES_UPGRADE"], origin,
                hasIframe, cause)

\* sendSetLogo
sendSetLogo(box, origin, cause) ==
    sendToTLend(box, [BaseMsg EXCEPT !.type = "SET_LOGO"], origin, hasIframe,
                cause)

\* sendDisconnect(reason)
sendDisconnect(box, reason, origin, cause) ==
    sendToTLend(box, [BaseMsg EXCEPT !.type = "DISCONNECT", !.reason = reason],
                origin, hasIframe, cause)

\* sendAuthCheckRequest, run with the timers left in rest
sendAuthCheckRequest(rest, cause) ==
    IF walletAddress = NULL
    THEN /\ timers' = rest
         /\ UNCHANGED <<pendingRequests, outbox, nextId, nextSeq>>
    ELSE /\ pendingRequests' =
                pendingRequests \cup {[rid |-> nextId, type |-> "AUTH_CHECK"]}
         /\ timers' = rest \cup {Timer(nextSeq, "authCheckTimeout",
                                       AUTH_CHECK_TIMEOUT, nextId, cause)}
         /\ outbox' = sendToTLend(outbox,
                [BaseMsg EXCEPT !.type = "AUTH_CHECK_REQUEST", !.rid = nextId],
                tlendOrigin, hasIframe, cause)
         /\ nextId' = nextId + 1
         /\ nextSeq' = nextSeq + 1

\* the credentials sendAuthCredentials picks: the wallet's proof, or a mock
Credentials == IF walletAccount # NULL /\ tonProof THEN "real" ELSE "mock"

\* sendAuthCredentials, run with the timers left in rest
sendAuthCredentials(rest, cause) ==
    IF walletAddress = NULL
    THEN /\ timers' = rest
         /\ UNCHANGED <<pendingRequests, outbox, nextId, nextSeq>>
    ELSE /\ pendingRequests' =
                pendingRequests \cup {[rid |-> nextId, type |-> "AUTH_CREDENTIALS"]}
         /\ timers' = rest \cup {Timer(nextSeq, "authCredentialsTimeout",
                                       AUTH_CREDENTIALS_TIMEOUT, nextId, cause)}
         /\ outbox' = sendToTLend(outbox,
                [BaseMsg EXCEPT !.type = "AUTH_CREDENTIALS", !.rid = nextId,
                                !.proof = Credentials],
                tlendOrigin, hasIframe, cause)
         /\ nextId' = nextId + 1
         /\ nextSeq' = nextSeq + 1

\* ------------------------------------------------------- inbound messages

\* handleMessage for a datum that reaches no handler: a non-object, an
\* object without a (truthy) type, or a type the switch does not list
RecvUnhandled(origin, d) ==
    /\ Dispatch(d) \in {"-", "default"}
    /\ External(MsgEvent(origin, d, FALSE))
    /\ AdoptOrigin(origin)
    /\ UNCHANGED <<frameVars, loadedVars, tlendState, walletVars,
                   pendingRequests, pendingRepayRequest, cfgVars, timers,
                   signs, outbox, nextId, nextSeq>>

\* handleTLendLoaded, 'if (skipAuth) ... else ...': what is scheduled after
\* the styles and the logo
FollowUp_AlwaysCheck(skip, mode) == {"authCheck"}
FollowUp(skip, mode) ==
    IF skip THEN (IF mode = "immediate" THEN {"ready"} ELSE {})
    ELSE {"authCheck"}

\* handleMessage -> handleTLendLoaded
RecvTLendLoaded(origin, ts, p) ==
    /\ Handler("TLEND_LOADED") = "handleTLendLoaded"
    /\ External(MsgEvent(origin, Datum("TLEND_LOADED", 0, ts, p), FALSE))
    /\ AdoptOrigin(origin)
    /\ iframeLoaded' = TRUE
    /\ tlendVersion' = IF p.present THEN "2.1.0" ELSE NULL
    /\ tlendCapabilities' = IF p.present THEN {"auth_delegation"} ELSE {}
    /\ tlendState' = "LOADING"
    /\ timers' = timers
            \cup {Timer(nextSeq, "styles", STYLES_DELAY, 0, Cause("TLEND_LOADED")),
                  Timer(nextSeq + 1, "logo", LOGO_DELAY, 0, Cause("TLEND_LOADED"))}
            \cup {Timer(nextSeq + 2, kind,
                        IF kind = "ready" THEN READY_DELAY
                        ELSE AUTH_CHECK_DELAY_LOADED,
                        0, Cause("TLEND_LOADED")) :
                    kind \in FollowUp(skipAuth, autoReadyMode)}
    /\ nextSeq' = nextSeq + 3
    /\ UNCHANGED <<frameVars, walletVars, pendingRequests,
                   pendingRepayRequest, cfgVars, signs, outbox, nextId>>

\* only an unauthenticated iframe is sent credentials
NeedsCredentials_Unauthenticated(p) == ~ p.authenticated

\* handleAuthCheckResponse: !authenticated || !matchesRequested
NeedsCredentials(p) == ~ p.authenticated \/ ~ p.matchesRequested

\* handleMessage -> handleAuthCheckResponse
RecvAuthCheckResponse(origin, ts, rid, p) ==
    /\ Handler("AUTH_CHECK_RESPONSE") = "handleAuthCheckResponse"
    /\ ExternalReply(MsgEvent(origin, Datum("AUTH_CHECK_RESPONSE", rid, ts, p),
                              ~ p.present), rid)
    /\ AdoptOrigin(origin)
    /\ pendingRequests' = DeletePending(rid)
    /\ IF p.present /\ NeedsCredentials(p)
       THEN /\ tlendState' = "PENDING_AUTH"
            /\ IF walletConnected
               THEN /\ timers' = ClearTimeoutOf(rid)
                        \cup {Timer(nextSeq, "authCredentials",
                                    AUTH_CREDENTIALS_DELAY, 0, Cause("AUTH_CHECK_RESPONSE"))}
                    /\ nextSeq' = nextSeq + 1
               ELSE /\ timers' = ClearTimeoutOf(rid)
                    /\ nextSeq' = nextSeq
       ELSE /\ tlendState' = tlendState
            /\ timers' = ClearTimeoutOf(rid)
            /\ nextSeq' = nextSeq
    /\ UNCHANGED <<frameVars, loadedVars, walletVars, pendingRepayRequest,
                   cfgVars, signs, outbox, nextId>>

\* a failed authentication always ends in ERROR
FailureState_AlwaysError == "ERROR"

\* a failed authentication always ends in READY
FailureState_AlwaysReady == "READY"

\* a failed authentication restarts the lifecycle

\* handleAuthResult, failure branch: READY in immediate mode, else ERROR
FailureState == IF autoReadyMode = "immediate" THEN "READY" ELSE "ERROR"

\* handleMessage -> handleAuthResult
RecvAuthResult(origin, ts, rid, p) ==
    /\ Handler("AUTH_RESULT") = "handleAuthResult"
    /\ ExternalReply(MsgEvent(origin, Datum("AUTH_RESULT", rid, ts, p),
                              ~ p.present), rid)
    /\ AdoptOrigin(origin)
    /\ pendingRequests' = DeletePending(rid)
    /\ timers' = ClearTimeoutOf(rid)
    /\ IF ~ p.present
       THEN UNCHANGED <<walletAddress, tlendState>>
       ELSE IF p.success
            THEN /\ walletAddress' = p.address
                 /\ tlendState' = tlendState
            ELSE /\ walletAddress' = walletAddress
                 /\ tlendState' = FailureState
    /\ UNCHANGED <<frameVars, loadedVars, walletConnected, walletAccount,
                   tonProof, pendingRepayRequest, cfgVars, signs, outbox,
                   nextId, nextSeq>>

\* the wallet is taken to be gone on every AUTH_REQUEST
StillConnected_Never == FALSE

\* the wallet is taken to be there on every AUTH_REQUEST
StillConnected_Always == TRUE

\* handleAuthRequest: state.walletConnected && state.walletAddress
StillConnected == walletConnected /\ walletAddress # NULL

\* handleMessage -> handleAuthRequest
RecvAuthRequest(origin, ts, p) ==
    /\ Handler("AUTH_REQUEST") = "handleAuthRequest"
    /\ External(MsgEvent(origin, Datum("AUTH_REQUEST", 0, ts, p), FALSE))
    /\ AdoptOrigin(origin)
    /\ IF StillConnected
       THEN /\ tlendState' = "PENDING_AUTH"
            /\ timers' = timers \cup {Timer(nextSeq, "authCredentials",
                                            AUTH_CREDENTIALS_DELAY, 0,
                                            Cause("AUTH_REQUEST"))}
            /\ nextSeq' = nextSeq + 1
            /\ outbox' = outbox
       ELSE /\ outbox' = sendDisconnect(outbox, "session_expired",
                                        OriginAfter(origin), Cause("AUTH_REQUEST"))
            /\ UNCHANGED <<tlendState, timers, nextSeq>>
    /\ UNCHANGED <<frameVars, loadedVars, walletVars, pendingRequests,
                   pendingRepayRequest, cfgVars, signs, nextId>>

\* handleMessage -> handleTLendReady
RecvTLendReady(origin, ts, p) ==
    /\ Handler("TLEND_READY") = "handleTLendReady"
    /\ External(MsgEvent(origin, Datum("TLEND_READY", 0, ts, p), FALSE))
    /\ AdoptOrigin(origin)
    /\ iframeLoaded' = TRUE
    /\ IF ~ skipAuth /\ walletConnected
       THEN /\ timers' = timers
                   \cup {Timer(nextSeq, "styles", STYLES_DELAY, 0, Cause("TLEND_READY")),
                         Timer(nextSeq + 1, "logo", LOGO_DELAY, 0, Cause("TLEND_READY")),
                         Timer(nextSeq + 2, "authCheck", AUTH_CHECK_DELAY_READY,
                               0, Cause("TLEND_READY"))}
            /\ nextSeq' = nextSeq + 3
            /\ tlendState' = tlendState
       ELSE /\ tlendState' = "READY"
            /\ UNCHANGED <<timers, nextSeq>>
    /\ UNCHANGED <<frameVars, tlendVersion, tlendCapabilities, walletVars,
                   pendingRequests, pendingRepayRequest, cfgVars, signs,
                   outbox, nextId>>

\* handleMessage -> handleRepayRequest; showRepayPanel throws on a missing
\* payload, after the slot has been written
RecvRepayRequest(origin, ts, rid, p) ==
    /\ Handler("REPAY_REQUEST") = "handleRepayRequest"
    /\ External(MsgEvent(origin, Datum("REPAY_REQUEST", rid, ts, p),
                         ~ p.present))
    /\ AdoptOrigin(origin)
    /\ pendingRepayRequest' = [requestId |-> rid, payload |-> p]
    /\ UNCHANGED <<frameVars, loadedVars, tlendState, walletVars,
                   pendingRequests, cfgVars, timers, signs, outbox, nextId,
                   nextSeq>>

\* handleMessage -> handleError; reading payload.code throws on a missing
\* payload
RecvError(origin, ts, p) ==
    /\ Handler("ERROR") = "handleError"
    /\ External(MsgEvent(origin, Datum("ERROR", 0, ts, p), ~ p.present))
    /\ AdoptOrigin(origin)
    /\ tlendState' = IF p.present /\ ~ p.recoverable THEN "ERROR" ELSE tlendState
    /\ UNCHANGED <<frameVars, loadedVars, walletVars, pendingRequests,
                   pendingRepayRequest, cfgVars, timers, signs, outbox, nextId,
                   nextSeq>>

\* ------------------------------------------------------------------ timers

\* the result carries the id of whatever request is in the slot when it is sent
ResultId_Current(captured) == pendingRepayRequest.requestId

\* approveRepayRequest: const { requestId } = state.pendingRepayRequest, read
\* once on invocation and used in every result it sends later
ResultId(captured) == captured

\* setTimeout(() => sendStylesUpgrade(), 100)
FireStyles(t) ==
    /\ t.kind = "styles" /\ CanFire(t)
    /\ Internal(TimerEvent(t))
    /\ timers' = timers \ {t}
    /\ outbox' = sendStylesUpgrade(outbox, tlendOrigin, t.cause)
    /\ UNCHANGED <<frameVars, loadedVars, tlendState, walletVars, originVars,
                   pendingRequests, pendingRepayRequest, cfgVars, signs,
                   nextId, nextSeq>>

\* setTimeout(() => sendSetLogo(), 200)
FireLogo(t) ==
    /\ t.kind = "logo" /\ CanFire(t)
    /\ Internal(TimerEvent(t))
    /\ timers' = timers \ {t}
    /\ outbox' = sendSetLogo(outbox, tlendOrigin, t.cause)
    /\ UNCHANGED <<frameVars, loadedVars, tlendState, walletVars, originVars,
                   pendingRequests, pendingRepayRequest, cfgVars, signs,
                   nextId, nextSeq>>

\* setTimeout(() => sendAuthCheckRequest(), 300 or 400)
FireAuthCheck(t) ==
    /\ t.kind = "authCheck" /\ CanFire(t)
    /\ Internal(TimerEvent(t))
    /\ sendAuthCheckRequest(timers \ {t}, t.cause)
    /\ UNCHANGED <<frameVars, loadedVars, tlendState, walletVars, originVars,
                   pendingRepayRequest, cfgVars, signs>>

\* setTimeout(() => sendAuthCredentials(), 500)
FireAuthCredentials(t) ==
    /\ t.kind = "authCredentials" /\ CanFire(t)
    /\ Internal(TimerEvent(t))
    /\ sendAuthCredentials(timers \ {t}, t.cause)
    /\ UNCHANGED <<frameVars, loadedVars, tlendState, walletVars, originVars,
                   pendingRepayRequest, cfgVars, signs>>

\* handleTLendLoaded: setTimeout(() => updateTLendState('READY'), 500)
FireReady(t) ==
    /\ t.kind = "ready" /\ CanFire(t)
    /\ Internal(TimerEvent(t))
    /\ timers' = timers \ {t}
    /\ tlendState' = "READY"
    /\ UNCHANGED <<frameVars, loadedVars, walletVars, originVars,
                   pendingRequests, pendingRepayRequest, cfgVars, signs,
                   outbox, nextId, nextSeq>>

\* iframe.onload: setTimeout(..., 2000) setting READY unless loaded meanwhile
FireOnloadReady(t) ==
    /\ t.kind = "onloadReady" /\ CanFire(t)
    /\ Internal(TimerEvent(t))
    /\ timers' = timers \ {t}
    /\ IF ~ iframeLoaded
       THEN iframeLoaded' = TRUE /\ tlendState' = "READY"
       ELSE UNCHANGED <<iframeLoaded, tlendState>>
    /\ UNCHANGED <<frameVars, tlendVersion, tlendCapabilities, walletVars,
                   originVars, pendingRequests, pendingRepayRequest, cfgVars,
                   signs, outbox, nextId, nextSeq>>

\* handleAuthCheckTimeout(requestId)
handleAuthCheckTimeout(t) ==
    /\ t.kind = "authCheckTimeout" /\ CanFire(t)
    /\ InternalTimeout(TimerEvent(t), t.rid)
    /\ timers' = timers \ {t}
    /\ pendingRequests' = DeletePending(t.rid)
    /\ UNCHANGED <<frameVars, loadedVars, tlendState, walletVars, originVars,
                   pendingRepayRequest, cfgVars, signs, outbox, nextId,
                   nextSeq>>

\* handleAuthCredentialsTimeout: 'if (autoReady === 'immediate')'
ReadyOnTimeout_Always(mode) == mode \in {"immediate", "on_ready"}
ReadyOnTimeout(mode) == mode = "immediate"

\* handleAuthCredentialsTimeout(requestId)
handleAuthCredentialsTimeout(t) ==
    /\ t.kind = "authCredentialsTimeout" /\ CanFire(t)
    /\ InternalTimeout(TimerEvent(t), t.rid)
    /\ timers' = timers \ {t}
    /\ pendingRequests' = DeletePending(t.rid)
    /\ tlendState' = IF HasPending(t.rid) /\ ReadyOnTimeout(autoReadyMode)
                     THEN "READY" ELSE tlendState
    /\ UNCHANGED <<frameVars, loadedVars, walletVars, originVars,
                   pendingRepayRequest, cfgVars, signs, outbox, nextId,
                   nextSeq>>

\* approveRepayRequest, simulated branch: the result sent after 2000 ms
FireMockTx(t) ==
    /\ t.kind = "mockTx" /\ CanFire(t)
    /\ Internal(TimerEvent(t))
    /\ timers' = timers \ {t}
    /\ outbox' = sendToTLend(outbox,
            [BaseMsg EXCEPT !.type = "REPAY_RESULT", !.rid = ResultId(t.rid),
                            !.success = TRUE, !.hash = "mockTxHash",
                            !.explorerUrl = ExplorerUrl("mockTxHash")],
            tlendOrigin, hasIframe, t.cause)
    /\ UNCHANGED <<frameVars, loadedVars, tlendState, walletVars, originVars,
                   pendingRequests, pendingRepayRequest, cfgVars, signs,
                   nextId, nextSeq>>

\* ----------------------------------------------------- wallet (TON Connect)

\* onStatusChange(wallet), wallet present
WalletConnected(address, proof) ==
    /\ External(UserEvent("walletConnected", address))
    /\ walletConnected' = TRUE
    /\ walletAddress' = address
    /\ walletAccount' = address
    /\ tonProof' = IF proof THEN TRUE ELSE tonProof
    /\ UNCHANGED <<frameVars, loadedVars, tlendState, originVars,
                   pendingRequests, pendingRepayRequest, cfgVars, timers,
                   signs, outbox, nextId, nextSeq>>

\* onStatusChange(null)
\* the iframe is told of a disconnect whether or not it has loaded
NotifiesDisconnect_Unloaded == walletConnected

\* onStatusChange: wasConnected && state.iframeLoaded
NotifiesDisconnect == walletConnected /\ iframeLoaded

WalletDisconnected ==
    /\ External(UserEvent("walletDisconnected", "-"))
    /\ walletConnected' = FALSE
    /\ walletAddress' = NULL
    /\ walletAccount' = NULL
    /\ tonProof' = FALSE
    /\ outbox' = IF NotifiesDisconnect
                 THEN sendDisconnect(outbox, "user_initiated", tlendOrigin,
                                     Cause("walletDisconnected"))
                 ELSE outbox
    /\ UNCHANGED <<frameVars, loadedVars, tlendState, originVars,
                   pendingRequests, pendingRepayRequest, cfgVars, timers,
                   signs, nextId, nextSeq>>

\* ------------------------------------------------------ iframe management

\* loadIframe; with an empty URL field it returns at once
\* state.pendingRequests.clear()
Clear_Nothing(requests) == requests
Clear(requests) == requests \ requests

\* loadIframe with the URL field filled in (url) or empty
loadIframe(url) ==
    /\ ExternalLoad(UserEvent("loadIframe", IF url THEN "url" ELSE "-"), url)
    /\ IF url
       THEN /\ hasIframe' = TRUE
            /\ onloadPending' = TRUE
            /\ iframeLoaded' = FALSE
            /\ tlendOrigin' = NULL
            /\ tlendVersion' = NULL
            /\ tlendCapabilities' = {}
            /\ pendingRequests' = Clear(pendingRequests)
            /\ tlendState' = "LOADING"
       ELSE UNCHANGED <<frameVars, loadedVars, tlendOrigin, pendingRequests,
                        tlendState>>
    /\ UNCHANGED <<allowedOrigins, walletVars, pendingRepayRequest, cfgVars,
                   timers, signs, outbox, nextId, nextSeq>>

\* reloadIframe
reloadIframe ==
    /\ ExternalLoad(UserEvent("reloadIframe", "-"), hasIframe)
    /\ IF hasIframe
       THEN /\ iframeLoaded' = FALSE
            /\ pendingRequests' = Clear(pendingRequests)
            /\ tlendState' = "LOADING"
            /\ onloadPending' = TRUE
       ELSE UNCHANGED <<iframeLoaded, pendingRequests, tlendState,
                        onloadPending>>
    /\ UNCHANGED <<hasIframe, tlendVersion, tlendCapabilities, originVars,
                   walletVars, pendingRepayRequest, cfgVars, timers, signs,
                   outbox, nextId, nextSeq>>

\* iframe.onload
IframeOnload ==
    /\ onloadPending
    /\ Internal(UserEvent("iframeOnload", "-"))
    /\ onloadPending' = FALSE
    /\ IF ~ iframeLoaded /\ autoReadyMode = "immediate" /\ skipAuth
       THEN /\ timers' = timers \cup {Timer(nextSeq, "onloadReady",
                                            ONLOAD_READY_DELAY, 0,
                                            <<nEvents, "iframeOnload">>)}
            /\ nextSeq' = nextSeq + 1
       ELSE UNCHANGED <<timers, nextSeq>>
    /\ UNCHANGED <<hasIframe, loadedVars, tlendState, walletVars, originVars,
                   pendingRequests, pendingRepayRequest, cfgVars, signs,
                   outbox, nextId>>

\* forceSetReady
forceSetReady ==
    /\ External(UserEvent("forceSetReady", "-"))
    /\ iframeLoaded' = TRUE
    /\ tlendState' = "READY"
    /\ UNCHANGED <<frameVars, tlendVersion, tlendCapabilities, walletVars,
                   originVars, pendingRequests, pendingRepayRequest, cfgVars,
                   timers, signs, outbox, nextId, nextSeq>>

\* the user changes the skipAuth / autoReadyMode selects
SetConfig(skip, mode) ==
    /\ <<skip, mode>> # <<skipAuth, autoReadyMode>>
    /\ External(UserEvent("setConfig", "-"))
    /\ skipAuth' = skip
    /\ autoReadyMode' = mode
    /\ UNCHANGED <<frameVars, loadedVars, tlendState, walletVars, originVars,
                   pendingRequests, pendingRepayRequest, timers, signs, outbox,
                   nextId, nextSeq>>

\* --------------------------------------------- manual actions (buttons, API)

\* sendStylesBtn, or a theme change once the iframe has loaded
ManualStyles ==
    /\ External(UserEvent("sendStylesUpgrade", "-"))
    /\ outbox' = sendStylesUpgrade(outbox, tlendOrigin, Cause("sendStylesUpgrade"))
    /\ UNCHANGED <<frameVars, loadedVars, tlendState, walletVars, originVars,
                   pendingRequests, pendingRepayRequest, cfgVars, timers,
                   signs, nextId, nextSeq>>

\* sendLogoBtn
ManualLogo ==
    /\ External(UserEvent("sendSetLogo", "-"))
    /\ outbox' = sendSetLogo(outbox, tlendOrigin, Cause("sendSetLogo"))
    /\ UNCHANGED <<frameVars, loadedVars, tlendState, walletVars, originVars,
                   pendingRequests, pendingRepayRequest, cfgVars, timers,
                   signs, nextId, nextSeq>>

\* sendAuthCheckBtn
ManualAuthCheck ==
    /\ External(UserEvent("sendAuthCheckRequest", "-"))
    /\ sendAuthCheckRequest(timers, Cause("sendAuthCheckRequest"))
    /\ UNCHANGED <<frameVars, loadedVars, tlendState, walletVars, originVars,
                   pendingRepayRequest, cfgVars, signs>>

\* sendAuthCredsBtn
ManualAuthCredentials ==
    /\ External(UserEvent("sendAuthCredentials", "-"))
    /\ sendAuthCredentials(timers, Cause("sendAuthCredentials"))
    /\ UNCHANGED <<frameVars, loadedVars, tlendState, walletVars, originVars,
                   pendingRepayRequest, cfgVars, signs>>

\* sendDisconnectBtn
ManualDisconnect ==
    /\ External(UserEvent("sendDisconnect", "-"))
    /\ outbox' = sendDisconnect(outbox, "user_initiated", tlendOrigin,
                                Cause("sendDisconnect"))
    /\ UNCHANGED <<frameVars, loadedVars, tlendState, walletVars, originVars,
                   pendingRequests, pendingRepayRequest, cfgVars, timers,
                   signs, nextId, nextSeq>>

\* ----------------------------------------------------------- repayment flow

\* approveRepayRequest up to its first suspension point.  With a wallet
\* connected and payload.transaction set it calls sendTransaction and waits
\* (the clean-up runs after the outcome); reading payload.transaction of a
\* missing payload throws; otherwise the result is simulated after 2000 ms
\* and the slot is cleared at once.
approveRepayRequest ==
    /\ External(UserEvent("approveRepayRequest", "-"))
    /\ IF pendingRepayRequest = NoRepayRequest
       THEN UNCHANGED <<pendingRepayRequest, signs, timers, nextSeq>>
       ELSE IF walletConnected /\ ~ pendingRepayRequest.payload.present
            THEN UNCHANGED <<pendingRepayRequest, signs, timers, nextSeq>>
            ELSE IF walletConnected /\ pendingRepayRequest.payload.transaction
                 THEN /\ signs' = signs \cup
                            {[seq |-> nextSeq,
                              rid |-> pendingRepayRequest.requestId,
                              cause |-> Cause("approveRepayRequest")]}
                      /\ nextSeq' = nextSeq + 1
                      /\ UNCHANGED <<pendingRepayRequest, timers>>
                 ELSE /\ timers' = timers \cup
                            {Timer(nextSeq, "mockTx", MOCK_TX_DELAY,
                                   pendingRepayRequest.requestId, Cause("approveRepayRequest"))}
                      /\ nextSeq' = nextSeq + 1
                      /\ pendingRepayRequest' = NoRepayRequest
                      /\ signs' = signs
    /\ UNCHANGED <<frameVars, loadedVars, tlendState, walletVars, originVars,
                   pendingRequests, cfgVars, outbox, nextId>>

\* every signer failure is reported as a failed transaction
SignErrorCode_AlwaysFailed(rejected) == "TRANSACTION_FAILED"

\* error.message?.includes('rejected') ? 'USER_REJECTED' : 'TRANSACTION_FAILED'
SignErrorCode(rejected) ==
    IF rejected THEN "USER_REJECTED" ELSE "TRANSACTION_FAILED"

\* approveRepayRequest resumed: sendTransaction resolved
SignResolved(s) ==
    /\ s \in signs
    /\ Internal(UserEvent("signResolved", "-"))
    /\ signs' = signs \ {s}
    /\ outbox' = sendToTLend(outbox,
            [BaseMsg EXCEPT !.type = "REPAY_RESULT", !.rid = ResultId(s.rid),
                            !.success = TRUE, !.hash = "boc",
                            !.explorerUrl = ExplorerUrl("boc")],
            tlendOrigin, hasIframe, s.cause)
    /\ pendingRepayRequest' = NoRepayRequest
    /\ UNCHANGED <<frameVars, loadedVars, tlendState, walletVars, originVars,
                   pendingRequests, cfgVars, timers, nextId, nextSeq>>

\* approveRepayRequest resumed: sendTransaction rejected; rejected tells
\* whether error.message includes 'rejected'
SignRejected(s, rejected) ==
    /\ s \in signs
    /\ Internal(UserEvent("signRejected", IF rejected THEN "rejected" ELSE "-"))
    /\ signs' = signs \ {s}
    /\ outbox' = sendToTLend(outbox,
            [BaseMsg EXCEPT !.type = "REPAY_RESULT", !.rid = ResultId(s.rid),
                            !.success = FALSE,
                            !.code = SignErrorCode(rejected),
                            !.userCancelled = rejected],
            tlendOrigin, hasIframe, s.cause)
    /\ pendingRepayRequest' = NoRepayRequest
    /\ UNCHANGED <<frameVars, loadedVars, tlendState, walletVars, originVars,
                   pendingRequests, cfgVars, timers, nextId, nextSeq>>

\* every rejection is reported as a cancellation by the user
RejectUserCancelled_Always(reason) == TRUE

\* the userCancelled flag rejectRepayRequest sends with a code
RejectUserCancelled(reason) == reason = "USER_REJECTED"

\* rejectRepayRequest(reason)
rejectRepayRequest(reason) ==
    /\ External(UserEvent("rejectRepayRequest", reason))
    /\ IF pendingRepayRequest = NoRepayRequest
       THEN UNCHANGED <<pendingRepayRequest, outbox>>
       ELSE /\ outbox' = sendToTLend(outbox,
                    [BaseMsg EXCEPT !.type = "REPAY_RESULT",
                                    !.rid = pendingRepayRequest.requestId,
                                    !.success = FALSE,
                                    !.code = reason,
                                    !.userCancelled = RejectUserCancelled(reason)],
                    tlendOrigin, hasIframe, Cause("rejectRepayRequest"))
            /\ pendingRepayRequest' = NoRepayRequest
    /\ UNCHANGED <<frameVars, loadedVars, tlendState, walletVars, originVars,
                   pendingRequests, cfgVars, timers, signs, nextId, nextSeq>>

\* ------------------------------------------------------------ specification

\* inbound data that reach no handler
UnhandledData ==
    {NonObject}
    \cup {Datum(type, 0, ts, SomePayload) :
            type \in {TYPE_MISSING, TYPE_NUMBER, TYPE_UNKNOWN, "DISCONNECT"},
            ts \in env.tss}

\* request ids a reply can carry: the ids issued so far, or a foreign one
ReplyIds == 0 .. (nextId - 1)

AuthCheckPayloads ==
    {NoPayload}
    \cup {[SomePayload EXCEPT !.authenticated = a, !.matchesRequested = m] :
            a \in BOOLEAN, m \in BOOLEAN}

AuthResultPayloads ==
    {NoPayload}
    \cup {[SomePayload EXCEPT !.success = TRUE, !.address = a] :
            a \in Addresses \cup {NULL}}
    \cup {[SomePayload EXCEPT !.success = FALSE]}

ErrorPayloads ==
    {NoPayload}
    \cup {[SomePayload EXCEPT !.recoverable = r] : r \in BOOLEAN}

RepayPayloads ==
    {NoPayload}
    \cup {[SomePayload EXCEPT !.transaction = t] : t \in BOOLEAN}

PlainPayloads == {NoPayload, SomePayload}

Receive ==
    \/ \E origin \in env.origins, d \in UnhandledData :
            RecvUnhandled(origin, d)
    \/ \E origin \in env.origins, ts \in env.tss, p \in PlainPayloads :
            RecvTLendLoaded(origin, ts, p)
    \/ \E origin \in env.origins, ts \in env.tss, rid \in ReplyIds,
          p \in AuthCheckPayloads :
            RecvAuthCheckResponse(origin, ts, rid, p)
    \/ \E origin \in env.origins, ts \in env.tss, rid \in ReplyIds,
          p \in AuthResultPayloads :
            RecvAuthResult(origin, ts, rid, p)
    \/ \E origin \in env.origins, ts \in env.tss, p \in PlainPayloads :
            RecvAuthRequest(origin, ts, p)
    \/ \E origin \in env.origins, ts \in env.tss, p \in PlainPayloads :
            RecvTLendReady(origin, ts, p)
    \/ \E origin \in env.origins, ts \in env.tss, rid \in RepayIds,
          p \in RepayPayloads :
            RecvRepayRequest(origin, ts, rid, p)
    \/ \E origin \in env.origins, ts \in env.tss, p \in ErrorPayloads :
            RecvError(origin, ts, p)

FireTimer ==
    \/ \E t \in timers : FireStyles(t)
    \/ \E t \in timers : FireLogo(t)
    \/ \E t \in timers : FireAuthCheck(t)
    \/ \E t \in timers : FireAuthCredentials(t)
    \/ \E t \in timers : FireReady(t)
    \/ \E t \in timers : FireOnloadReady(t)
    \/ \E t \in timers : handleAuthCheckTimeout(t)
    \/ \E t \in timers : handleAuthCredentialsTimeout(t)
    \/ \E t \in timers : FireMockTx(t)

Wallet ==
    \/ \E a \in Addresses, proof \in BOOLEAN : WalletConnected(a, proof)
    \/ WalletDisconnected

Frame ==
    \/ \E url \in BOOLEAN : loadIframe(url)
    \/ reloadIframe
    \/ IframeOnload
    \/ forceSetReady
    \/ \E skip \in BOOLEAN, mode \in {"immediate", "on_ready"} :
            SetConfig(skip, mode)

Manual ==
    \/ ManualStyles
    \/ ManualLogo
    \/ ManualAuthCheck
    \/ ManualAuthCredentials
    \/ ManualDisconnect

Repay ==
    \/ approveRepayRequest
    \/ \E reason \in ErrorCodes : rejectRepayRequest(reason)

SignOutcome ==
    \/ \E s \in signs : SignResolved(s)
    \/ \E s \in signs, rejected \in BOOLEAN : SignRejected(s, rejected)

\* every callback of the page
Next ==
    \/ Receive
    \/ FireTimer
    \/ Wallet
    \/ Frame
    \/ Manual
    \/ Repay
    \/ SignOutcome

\* the callbacks that can run within MaxEvents events of the page's start (a
\* signing call needs a wallet, a request and a confirmation first)
NextStart ==
    \/ Receive
    \/ FireTimer
    \/ Wallet
    \/ Frame
    \/ Manual
    \/ Repay

\* the freshly initialised page
Spec == Init /\ [][NextStart]_vars

\* a session with a wallet connected and the iframe created
SpecSession == InitSession /\ [][Next]_vars

\* the authentication flow on its own: the remote's authentication messages,
\* the timers, the manual authentication buttons, a wallet disconnect and a
\* reload
ReceiveAuth ==
    \/ \E origin \in env.origins, ts \in env.tss, p \in PlainPayloads :
            RecvTLendLoaded(origin, ts, p)
    \/ \E origin \in env.origins, ts \in env.tss, rid \in ReplyIds,
          p \in AuthCheckPayloads :
            RecvAuthCheckResponse(origin, ts, rid, p)
    \/ \E origin \in env.origins, ts \in env.tss, rid \in ReplyIds,
          p \in AuthResultPayloads :
            RecvAuthResult(origin, ts, rid, p)
    \/ \E origin \in env.origins, ts \in env.tss, p \in PlainPayloads :
            RecvAuthRequest(origin, ts, p)
    \/ \E origin \in env.origins, ts \in env.tss, p \in PlainPayloads :
            RecvTLendReady(origin, ts, p)

FireAuthTimer ==
    \/ \E t \in timers : FireStyles(t)
    \/ \E t \in timers : FireLogo(t)
    \/ \E t \in timers : FireAuthCheck(t)
    \/ \E t \in timers : FireAuthCredentials(t)
    \/ \E t \in timers : FireReady(t)
    \/ \E t \in timers : FireOnloadReady(t)
    \/ \E t \in timers : handleAuthCheckTimeout(t)
    \/ \E t \in timers : handleAuthCredentialsTimeout(t)

NextAuth ==
    \/ ReceiveAuth
    \/ FireAuthTimer
    \/ ManualAuthCheck
    \/ ManualAuthCredentials
    \/ WalletDisconnected
    \/ reloadIframe

SpecAuth == InitAuth /\ [][NextAuth]_vars

\* the correlator on its own: requests, their replies, their timeouts and a
\* reload; a pending timer eventually runs
NextCorrelator ==
    \/ \E origin \in env.origins, ts \in env.tss, rid \in ReplyIds,
          p \in AuthCheckPayloads :
            RecvAuthCheckResponse(origin, ts, rid, p)
    \/ \E origin \in env.origins, ts \in env.tss, rid \in ReplyIds,
          p \in AuthResultPayloads :
            RecvAuthResult(origin, ts, rid, p)
    \/ \E t \in timers : FireAuthCredentials(t)
    \/ \E t \in timers : FireOnloadReady(t)
    \/ \E t \in timers : handleAuthCheckTimeout(t)
    \/ \E t \in timers : handleAuthCredentialsTimeout(t)
    \/ ManualAuthCheck
    \/ ManualAuthCredentials
    \/ reloadIframe

SpecCorrelator ==
    InitAuth /\ [][NextCorrelator]_vars /\ WF_vars(FireAuthTimer)

\* the repayment flow on its own: requests, the confirm and cancel buttons,
\* the signer's outcomes, the simulated result, and a wallet disconnect
NextRepay ==
    \/ \E origin \in env.origins, ts \in env.tss, rid \in RepayIds,
          p \in RepayPayloads :
            RecvRepayRequest(origin, ts, rid, p)
    \/ approveRepayRequest
    \/ \E reason \in ErrorCodes : rejectRepayRequest(reason)
    \/ \E s \in signs : SignResolved(s)
    \/ \E s \in signs, rejected \in BOOLEAN : SignRejected(s, rejected)
    \/ \E t \in timers : FireMockTx(t)
    \/ \E t \in timers : FireOnloadReady(t)
    \/ WalletDisconnected

SpecRepay == InitRepay /\ [][NextRepay]_vars

\* the request ids of the messages of one type sent so far
SentIds(type) ==
    {outbox[i].rid : i \in {j \in 1 .. Len(outbox) : outbox[j].type = type}}

\* the iframe's side of the RFC 7.2 authentication sequence, message by
\* message: TLEND_LOADED, AUTH_CHECK_RESPONSE (not authenticated) to the
\* AUTH_CHECK_REQUEST, AUTH_RESULT (success) to the AUTH_CREDENTIALS,
\* TLEND_READY, and then an AUTH_CHECK_RESPONSE (authenticated) to a later
\* AUTH_CHECK_REQUEST
HandshakeRemote ==
    \/ /\ nEvents = 0
       /\ \E p \in PlainPayloads : RecvTLendLoaded(TLEND_ORIGIN, TRUE, p)
    \/ /\ nEvents = 1
       /\ \E rid \in SentIds("AUTH_CHECK_REQUEST"), m \in BOOLEAN :
            RecvAuthCheckResponse(TLEND_ORIGIN, TRUE, rid,
                [SomePayload EXCEPT !.authenticated = FALSE,
                                    !.matchesRequested = m])
    \/ /\ nEvents = 2
       /\ \E rid \in SentIds("AUTH_CREDENTIALS") :
            RecvAuthResult(TLEND_ORIGIN, TRUE, rid,
                [SomePayload EXCEPT !.success = TRUE, !.address = "0:aaa"])
    \/ /\ nEvents = 3
       /\ \E p \in PlainPayloads : RecvTLendReady(TLEND_ORIGIN, TRUE, p)
    \/ /\ nEvents = 4
       /\ \E rid \in SentIds("AUTH_CHECK_REQUEST") :
            /\ HasPending(rid)
            /\ RecvAuthCheckResponse(TLEND_ORIGIN, TRUE, rid,
                    [SomePayload EXCEPT !.authenticated = TRUE,
                                        !.matchesRequested = TRUE])

\* the deferred sends and the request timeouts of the handshake
HandshakeTimer ==
    \/ \E t \in timers : FireStyles(t)
    \/ \E t \in timers : FireLogo(t)
    \/ \E t \in timers : FireAuthCheck(t)
    \/ \E t \in timers : FireAuthCredentials(t)
    \/ \E t \in timers : handleAuthCheckTimeout(t)
    \/ \E t \in timers : handleAuthCredentialsTimeout(t)

NextHandshake == HandshakeRemote \/ HandshakeTimer

SpecHandshake ==
    InitHandshake /\ [][NextHandshake]_vars /\ WF_vars(HandshakeTimer)

\* ---------------------------------------------------- skip-auth sessions
\* a session with skip-auth set: the remote announces itself with
\* TLEND_LOADED and sends no authentication message
InitSkipAuth == SessionInit(MaxSkipAuthEvents) /\ skipAuth = TRUE

SkipAuthRemote ==
    \/ /\ nEvents = 0
       /\ \E p \in PlainPayloads : RecvTLendLoaded(TLEND_ORIGIN, TRUE, p)
    \/ /\ nEvents > 0
       /\ \/ \E d \in UnhandledData : RecvUnhandled(TLEND_ORIGIN, d)
          \/ \E p \in PlainPayloads : RecvTLendReady(TLEND_ORIGIN, TRUE, p)
          \/ \E rid \in RepayIds, p \in RepayPayloads :
                RecvRepayRequest(TLEND_ORIGIN, TRUE, rid, p)
          \/ \E p \in ErrorPayloads : RecvError(TLEND_ORIGIN, TRUE, p)

SkipAuthLocal == nEvents > 0 /\ Wallet

SkipAuthTimer ==
    \/ \E t \in timers : FireStyles(t)
    \/ \E t \in timers : FireLogo(t)
    \/ \E t \in timers : FireReady(t)
    \/ \E t \in timers : FireOnloadReady(t)

NextSkipAuth == SkipAuthRemote \/ SkipAuthLocal \/ SkipAuthTimer

SpecSkipAuth ==
    InitSkipAuth /\ [][NextSkipAuth]_vars /\ WF_vars(SkipAuthTimer)

\* ------------------------------------------------- every type on the wire
\* a session to which the remote posts, besides what TLend sends, the
\* messages that only the partner is meant to send
InitDirection == SessionInit(MaxDirectionEvents)

Echo ==
    \E origin \in env.origins, type \in TLendTypes \cup PartnerTypes :
        RecvUnhandled(origin, Datum(type, 0, TRUE, SomePayload))

NextDirection == Receive \/ Echo

SpecDirection == InitDirection /\ [][NextDirection]_vars

\* --------------------------------------------------- challenge payload runs
pageVars ==
    <<hasIframe, onloadPending, iframeLoaded, tlendState, walletConnected,
      walletAddress, walletAccount, tonProof, pendingRequests,
      pendingRepayRequest, tlendOrigin, allowedOrigins, tlendVersion,
      tlendCapabilities, skipAuth, autoReadyMode, timers, signs, outbox,
      nextId, nextSeq, replied, timedOut, cleared, env, nEvents, lastEvent>>

\* the verdict belongs to the verification that was the last operation
Unjudged == [codec EXCEPT !.key = << >>, !.verdict = FALSE]

\* the partner's backend issues a payload, once in a run
CodecIssue ==
    LET payloadHex == generatePayload(codec.secret, codec.now)
    IN  /\ codec.issued = << >>
        /\ codec' =
              IF payloadHex = THROWN
              THEN [Unjudged EXCEPT !.op = "issueThrew"]
              ELSE [Unjudged EXCEPT !.payload = payloadHex,
                                    !.issued = payloadHex,
                                    !.expiration = Plus(codec.now, PAYLOAD_TTL),
                                    !.op = "issue"]
        /\ UNCHANGED pageVars

\* Date.now() moves on
ClockSteps == {1, PAYLOAD_TTL - 1}

CodecTick(d) ==
    /\ codec.ticks < MaxClockTicks
    /\ codec' = [Unjudged EXCEPT !.now = Plus(codec.now, d),
                                 !.ticks = @ + 1,
                                 !.op = "tick"]
    /\ UNCHANGED pageVars

\* a payload made by somebody who holds key, for an expiration of their own
Forged(key, expirationTime) ==
    toHex(writeUInt32BE(expirationTime)
          \o Signature(key, writeUInt32BE(expirationTime)))

\* what may reach the verifier in place of the issued payload p
Altered(p) ==
    {SubSeq(p, 1, Len(p) - 2), SubSeq(p, 1, Len(p) - 1), p \o <<0, 0>>,
     p \o <<5>>, [p EXCEPT ![Len(p)] = NOT_HEX],
     [p EXCEPT ![Len(p)] = (@ + 1) % 16], [p EXCEPT ![1] = (@ + 1) % 16]}

Deliverable ==
    (IF codec.issued = << >> THEN {} ELSE {codec.issued} \cup Altered(codec.issued))
    \cup {Forged(key, Plus(codec.now, n)) :
            key \in Secrets,
            n \in {m \in {0, 1, MAX_WINDOW, MAX_WINDOW + 1} :
                     FitsUInt32(Plus(codec.now, m))}}

CodecDeliver(payloadHex) ==
    /\ payloadHex # codec.payload
    /\ codec' = [Unjudged EXCEPT !.payload = payloadHex, !.op = "deliver"]
    /\ UNCHANGED pageVars

\* TLend's backend verifies what it received
CodecVerify(key) ==
    /\ codec' = [codec EXCEPT
                    !.key = key,
                    !.verdict = verifyPartnerPayload(codec.payload, key, codec.now),
                    !.op = "verify"]
    /\ UNCHANGED pageVars

NextCodec ==
    \/ CodecIssue
    \/ \E d \in ClockSteps : CodecTick(d)
    \/ \E payloadHex \in Deliverable : CodecDeliver(payloadHex)
    \/ \E key \in Secrets : CodecVerify(key)

SpecCodec == InitCodec /\ [][NextCodec]_vars

\* ------------------------------------------------------------------- claims

\* the step handles an inbound 'message' event
MessageStep == lastEvent'.kind = "message" /\ nEvents' = nEvents + 1

\* the step handles an inbound reply to a correlated request
ReplyStep ==
    /\ MessageStep
    /\ lastEvent'.name \in {"AUTH_CHECK_RESPONSE", "AUTH_RESULT"}

\* no field of state that a message handler writes has changed
SessionUnchanged ==
    UNCHANGED <<iframeLoaded, tlendState, walletVars, pendingRequests,
                pendingRepayRequest, tlendVersion, tlendCapabilities>>

\* nothing was sent and no deferred send or state change was scheduled
NothingSentOrScheduled == outbox' = outbox /\ timers' \subseteq timers

\* C1 (origin gate): an inbound message whose origin is not in the configured
\* allow-list CONFIG.TLEND_ORIGINS changes no session field, reaches no
\* handler and causes no outbound message, the first message after a load
\* included.
C1_OriginGate ==
    [][(MessageStep /\ lastEvent'.origin \notin TLEND_ORIGINS)
        => (SessionUnchanged /\ NothingSentOrScheduled)]_vars

\* C2 (at-most-once under duplicate delivery): a second reply carrying the
\* requestId of a request that an earlier reply already resolved changes
\* neither the lifecycle state nor the wallet address and schedules or emits
\* no outbound message.
C2_DuplicateReplyNoOp ==
    [][(ReplyStep /\ lastEvent'.data.rid \in replied)
        => (UNCHANGED <<tlendState, walletAddress>> /\ NothingSentOrScheduled)]_vars

\* C3 (reply without pending entry): a reply whose requestId has no pending
\* entry, because its request timed out or was never issued, leaves the
\* lifecycle state, the wallet address and pendingRequests unchanged and
\* emits or schedules nothing.
C3_UnmatchedReplyNoOp ==
    [][(ReplyStep /\ ~ HasPending(lastEvent'.data.rid)
                  /\ (lastEvent'.data.rid = 0 \/ lastEvent'.data.rid \in timedOut))
        => (UNCHANGED <<tlendState, walletAddress, pendingRequests>>
            /\ NothingSentOrScheduled)]_vars

\* C5 (envelope validation): an inbound payload that is not an object, lacks
\* a string type or a numeric timestamp, or has a type outside the thirteen
\* protocol types (isIframeMessage is false) mutates no state at all, the
\* remembered remote origin and the allow-list included.
C5_MalformedRejected ==
    [][(MessageStep /\ ~ isIframeMessage(lastEvent'.data))
        => (SessionUnchanged /\ UNCHANGED originVars /\ NothingSentOrScheduled)]_vars

\* the ids generateRequestId has handed out
Issued == 1 .. (nextId - 1)

\* the timeout timer of request rid is still armed
Armed(rid) ==
    \E t \in timers :
        t.kind \in {"authCheckTimeout", "authCredentialsTimeout"} /\ t.rid = rid

\* C4 as claimed (timeout liveness and exclusivity): every registered request
\* leaves pendingRequests either through a matching reply or through its
\* timeout taking effect, never through both; while it is pending its timer
\* is armed (so that, with no reply, the timeout takes effect), and a reply
\* that removes it cancels the timer.
C4_ReplyOrTimeoutOnly ==
    \A rid \in Issued :
        /\ HasPending(rid) => Armed(rid)
        /\ rid \in replied => ~ Armed(rid)
        /\ ~ HasPending(rid) => (rid \in replied) # (rid \in timedOut)
        /\ HasPending(rid) => rid \notin replied \cup timedOut

\* a request left pendingRequests in exactly one of the three ways
OneWayOut(rid) ==
    /\ ~ (rid \in replied /\ rid \in timedOut)
    /\ ~ (rid \in replied /\ rid \in cleared)
    /\ ~ (rid \in timedOut /\ rid \in cleared)
    /\ HasPending(rid) <=> rid \notin replied \cup timedOut \cup cleared

\* C4 as amended: a registered request leaves pendingRequests in exactly one
\* way: a matching reply (which cancels its timer, so the timeout never takes
\* effect), its timeout taking effect, or loadIframe / reloadIframe clearing
\* the map (the timeout then finds nothing).  While it is pending its timer is
\* armed, and with timers running the map empties again: ids are never reused,
\* so every registered request eventually leaves.
C4_TimeoutExclusive ==
    /\ [](\A rid \in Issued :
            /\ OneWayOut(rid)
            /\ HasPending(rid) => Armed(rid)
            /\ rid \in replied => ~ Armed(rid))
    /\ (pendingRequests # {}) ~> (pendingRequests = {})

\* a request was closed by its timeout and another one by a reply
C4_Witness ==
    /\ lastEvent.kind = "timer"
    /\ lastEvent.name \in {"authCheckTimeout", "authCredentialsTimeout"}
    /\ timedOut # {}
    /\ replied # {}

\* ---- deferred sends

\* the messages the step hands to sendToTLend
NewMsgs == SubSeq(outbox', Len(outbox) + 1, Len(outbox'))

\* the request ids carried by the requests sent so far
UsedIds ==
    {outbox[i].rid : i \in {j \in 1 .. Len(outbox) :
        outbox[j].type \in {"AUTH_CHECK_REQUEST", "AUTH_CREDENTIALS"}}}

\* the step runs the callback of timer t
TimerRuns(t) == t \in timers /\ t \notin timers'

\* the step sends exactly one message of the given type for the given cause
SendsOne(type, cause) ==
    /\ Len(NewMsgs) = 1
    /\ NewMsgs[1].type = type
    /\ NewMsgs[1].cause = cause
    /\ NewMsgs[1].posted = hasIframe

\* the step sends one request with an id no earlier request carried and
\* registers it in pendingRequests under the given kind
SendsFreshRequest(type, kind, cause) ==
    /\ SendsOne(type, cause)
    /\ NewMsgs[1].rid \notin UsedIds
    /\ ~ HasPending(NewMsgs[1].rid)
    /\ pendingRequests' =
            pendingRequests \cup {[rid |-> NewMsgs[1].rid, type |-> kind]}

\* the step sends nothing and registers nothing
SendsNothing == outbox' = outbox /\ pendingRequests' = pendingRequests

\* the step schedules a deferred send of the given kind for the event it handles
Schedules(kind, name) ==
    \E t \in timers' \ timers : t.kind = kind /\ t.cause = <<nEvents', name>>

\* ---- C6

LoadedStep == MessageStep /\ lastEvent'.name = "TLEND_LOADED"

\* TLEND_LOADED with skip-auth unset: LOADING, and the three sends scheduled
LoadScheduled ==
    (LoadedStep /\ ~ skipAuth) =>
        /\ tlendState' = "LOADING"
        /\ Schedules("styles", "TLEND_LOADED")
        /\ Schedules("logo", "TLEND_LOADED")
        /\ Schedules("authCheck", "TLEND_LOADED")

\* what the three scheduled sends do when they run; needsWallet says whether
\* the auth check is sent only for a known wallet address
LoadSendsRun(needsWallet) ==
    \A t \in timers :
        (/\ t.kind \in {"styles", "logo", "authCheck"}
         /\ t.cause[2] = "TLEND_LOADED"
         /\ TimerRuns(t)) =>
            /\ lastEvent'.kind = "timer"
            /\ t.kind = "styles" => SendsOne("STYLES_UPGRADE", t.cause)
            /\ t.kind = "logo" => SendsOne("SET_LOGO", t.cause)
            /\ t.kind = "authCheck" =>
                    IF needsWallet /\ walletAddress = NULL
                    THEN SendsNothing
                    ELSE SendsFreshRequest("AUTH_CHECK_REQUEST", "AUTH_CHECK",
                                           t.cause)

\* the sends of one TLEND_LOADED leave in the order styles, logo, auth check
LoadOrder ==
    \A i \in 1 .. Len(outbox) :
        outbox[i].cause[2] = "TLEND_LOADED" =>
            /\ outbox[i].type = "SET_LOGO" =>
                    \E j \in 1 .. (i - 1) :
                        /\ outbox[j].type = "STYLES_UPGRADE"
                        /\ outbox[j].cause = outbox[i].cause
            /\ outbox[i].type = "AUTH_CHECK_REQUEST" =>
                    \E j \in 1 .. (i - 1) :
                        /\ outbox[j].type = "SET_LOGO"
                        /\ outbox[j].cause = outbox[i].cause

\* C6 as claimed (load scenario): on TLEND_LOADED with skip-auth unset the
\* lifecycle state becomes LOADING and the mock sends, in this order,
\* STYLES_UPGRADE, SET_LOGO and an AUTH_CHECK_REQUEST with a fresh requestId
\* that is registered in pendingRequests.
C6_LoadScenario ==
    /\ [][LoadScheduled /\ LoadSendsRun(FALSE)]_vars
    /\ []LoadOrder

\* C6 as amended: on TLEND_LOADED with skip-auth unset the lifecycle state
\* becomes LOADING and the mock sends STYLES_UPGRADE, then SET_LOGO, and then,
\* if a wallet address is known when the deferred auth check runs, an
\* AUTH_CHECK_REQUEST with a fresh requestId that is registered in
\* pendingRequests; with no wallet address the auth check sends and registers
\* nothing.
C6_LoadScenarioWithWallet ==
    /\ [][LoadScheduled /\ LoadSendsRun(TRUE)]_vars
    /\ []LoadOrder

\* the three sends of a TLEND_LOADED have been posted and the auth check is
\* pending
C6_Witness ==
    \E i \in 1 .. Len(outbox) :
        /\ outbox[i].type = "AUTH_CHECK_REQUEST"
        /\ outbox[i].cause[2] = "TLEND_LOADED"
        /\ outbox[i].posted
        /\ HasPending(outbox[i].rid)
        /\ tlendState = "LOADING"

\* ---- C7

\* an AUTH_CHECK_RESPONSE whose payload can be read
CheckResponseStep ==
    /\ MessageStep
    /\ lastEvent'.name = "AUTH_CHECK_RESPONSE"
    /\ lastEvent'.data.payload.present

\* the decision taken on receipt of the response
CheckResponseDecides ==
    CheckResponseStep =>
        /\ outbox' = outbox
        /\ IF ~ lastEvent'.data.payload.authenticated
              \/ ~ lastEvent'.data.payload.matchesRequested
           THEN /\ tlendState' = "PENDING_AUTH"
                /\ walletConnected <=>
                        Schedules("authCredentials", "AUTH_CHECK_RESPONSE")
           ELSE /\ tlendState' = tlendState
                /\ ~ Schedules("authCredentials", "AUTH_CHECK_RESPONSE")

\* what a deferred credentials send for the named event does when it runs;
\* needsWallet says whether it sends only for a known wallet address
CredentialsRun(name, needsWallet) ==
    \A t \in timers :
        (t.kind = "authCredentials" /\ t.cause[2] = name /\ TimerRuns(t)) =>
            /\ lastEvent'.kind = "timer"
            /\ IF needsWallet /\ walletAddress = NULL
               THEN SendsNothing
               ELSE SendsFreshRequest("AUTH_CREDENTIALS", "AUTH_CREDENTIALS",
                                      t.cause)

\* C7 as claimed (auth-status decision rule): on AUTH_CHECK_RESPONSE with
\* authenticated=false or matchesRequested=false the lifecycle state becomes
\* PENDING_AUTH and AUTH_CREDENTIALS is subsequently sent if and only if a
\* wallet is connected on receipt; with both true the state is unchanged and
\* no AUTH_CREDENTIALS is sent.
C7_AuthStatusDecision ==
    [][CheckResponseDecides /\ CredentialsRun("AUTH_CHECK_RESPONSE", FALSE)]_vars

\* C7 as amended: on AUTH_CHECK_RESPONSE with authenticated=false or
\* matchesRequested=false the lifecycle state becomes PENDING_AUTH and a
\* credentials send is scheduled if and only if a wallet is connected on
\* receipt; when it runs it sends AUTH_CREDENTIALS only if a wallet address
\* is still known, and nothing after a disconnect.  With both true the state
\* is unchanged and no credentials send is scheduled.
C7_AuthStatusDecisionDeferred ==
    [][CheckResponseDecides /\ CredentialsRun("AUTH_CHECK_RESPONSE", TRUE)]_vars

\* credentials have been posted in answer to an AUTH_CHECK_RESPONSE
C7_Witness ==
    /\ tlendState = "PENDING_AUTH"
    /\ \E i \in 1 .. Len(outbox) :
        /\ outbox[i].type = "AUTH_CREDENTIALS"
        /\ outbox[i].cause[2] = "AUTH_CHECK_RESPONSE"
        /\ outbox[i].posted
        /\ HasPending(outbox[i].rid)

\* ---- C8, C9

AuthRequestStep == MessageStep /\ lastEvent'.name = "AUTH_REQUEST"

\* AUTH_REQUEST answered with a scheduled credentials send and no DISCONNECT
AnswersWithCredentials ==
    /\ outbox' = outbox
    /\ Schedules("authCredentials", "AUTH_REQUEST")

\* C8 as claimed (re-auth while connected): on AUTH_REQUEST with the wallet
\* connected the mock sends no DISCONNECT in response and sends a fresh
\* AUTH_CREDENTIALS, registered as a pending request, also when the wallet
\* state changes before the deferred send.
C8_ReauthConnected ==
    [][/\ (AuthRequestStep /\ walletConnected) => AnswersWithCredentials
       /\ CredentialsRun("AUTH_REQUEST", FALSE)]_vars

\* C8 as amended: on AUTH_REQUEST with the wallet connected and its address
\* known the mock sends no DISCONNECT in response and schedules a
\* credentials send; when that runs it sends a fresh
\* AUTH_CREDENTIALS, registered as a pending request, only if a wallet
\* address is still known, and nothing if the wallet disconnected meanwhile.
C8_ReauthConnectedDeferred ==
    [][/\ (AuthRequestStep /\ walletConnected /\ walletAddress # NULL) =>
                AnswersWithCredentials
       /\ CredentialsRun("AUTH_REQUEST", TRUE)]_vars

\* credentials have been posted in answer to an AUTH_REQUEST, and no
\* DISCONNECT
C8_Witness ==
    /\ \E i \in 1 .. Len(outbox) :
        /\ outbox[i].type = "AUTH_CREDENTIALS"
        /\ outbox[i].cause[2] = "AUTH_REQUEST"
        /\ outbox[i].posted
        /\ HasPending(outbox[i].rid)
    /\ \A i \in 1 .. Len(outbox) : outbox[i].type # "DISCONNECT"

\* C9 (re-auth while disconnected): on AUTH_REQUEST with the wallet not
\* connected the mock sends one DISCONNECT with reason session_expired, sends
\* and schedules no AUTH_CREDENTIALS, registers no pending request and leaves
\* the lifecycle state unchanged.
C9_ReauthDisconnected ==
    [][(AuthRequestStep /\ ~ walletConnected) =>
            /\ SendsOne("DISCONNECT", <<nEvents', "AUTH_REQUEST">>)
            /\ NewMsgs[1].reason = "session_expired"
            /\ timers' = timers
            /\ pendingRequests' = pendingRequests
            /\ tlendState' = tlendState]_vars

\* an AUTH_REQUEST has just been answered with a posted DISCONNECT
C9_Witness ==
    /\ lastEvent.kind = "message"
    /\ lastEvent.name = "AUTH_REQUEST"
    /\ ~ walletConnected
    /\ Len(outbox) > 0
    /\ outbox[Len(outbox)].type = "DISCONNECT"
    /\ outbox[Len(outbox)].reason = "session_expired"
    /\ outbox[Len(outbox)].posted
    /\ tlendState # NULL

\* ---- C10

RejectStep ==
    /\ lastEvent'.kind = "user"
    /\ lastEvent'.name = "rejectRepayRequest"
    /\ nEvents' = nEvents + 1

\* what rejectRepayRequest(code) does; cancelled(code) is the userCancelled
\* flag expected for the code
RejectSends(cancelled(_)) ==
    RejectStep =>
        /\ signs' = signs
        /\ timers' = timers
        /\ IF pendingRepayRequest = NoRepayRequest
           THEN outbox' = outbox
           ELSE /\ SendsOne("REPAY_RESULT", <<nEvents', "rejectRepayRequest">>)
                /\ NewMsgs[1].rid = pendingRepayRequest.requestId
                /\ NewMsgs[1].success = FALSE
                /\ NewMsgs[1].code = lastEvent'.arg
                /\ NewMsgs[1].userCancelled = cancelled(lastEvent'.arg)

CancelledForEveryCode(code) == TRUE

CancelledForUserRejected(code) == code = "USER_REJECTED"

\* C10 as claimed (explicit reject): rejectRepayRequest(code) with a
\* transaction pending sends exactly one REPAY_RESULT with success=false,
\* error.code = code and userCancelled=true for every code, and attempts no
\* signing; with none pending it sends nothing.
C10_ExplicitReject == [][RejectSends(CancelledForEveryCode)]_vars

\* C10 as amended: rejectRepayRequest(code) with a transaction pending sends
\* exactly one REPAY_RESULT with success=false, error.code = code and
\* userCancelled=true exactly when code is USER_REJECTED (the default), and
\* attempts no signing; with none pending it sends nothing.
C10_ExplicitRejectByCode == [][RejectSends(CancelledForUserRejected)]_vars

\* a pending transaction has just been rejected with a code other than
\* USER_REJECTED
C10_Witness ==
    /\ lastEvent.kind = "user"
    /\ lastEvent.name = "rejectRepayRequest"
    /\ lastEvent.arg = "TRANSACTION_FAILED"
    /\ pendingRepayRequest = NoRepayRequest
    /\ Len(outbox) > 0
    /\ outbox[Len(outbox)].type = "REPAY_RESULT"
    /\ outbox[Len(outbox)].code = "TRANSACTION_FAILED"
    /\ ~ outbox[Len(outbox)].userCancelled
    /\ outbox[Len(outbox)].posted

\* ---- C11

\* the step resumes approveRepayRequest with the signer's outcome
SignStep(name) ==
    /\ lastEvent'.kind = "user"
    /\ lastEvent'.name = name
    /\ signs' # signs
    /\ nEvents' = nEvents

\* the REPAY_RESULT of a successful (real or simulated) signature
SuccessResult(m) ==
    /\ m.type = "REPAY_RESULT"
    /\ m.success
    /\ m.hash # "-"
    /\ m.explorerUrl = <<"https://tonscan.org/tx/", m.hash>>

\* the REPAY_RESULT of a failed signature
FailureResult(m, code, cancelled) ==
    /\ m.type = "REPAY_RESULT"
    /\ ~ m.success
    /\ m.code = code
    /\ m.userCancelled = cancelled

\* C11 (confirm outcome mirrors the signer): the REPAY_RESULT sent for an
\* approved transaction has success=true, a non-empty transactionHash and an
\* explorerUrl when the signer succeeds (or the signature is simulated); when
\* the signer fails it has success=false with USER_REJECTED and
\* userCancelled=true if the signer reports a rejection, and
\* TRANSACTION_FAILED and userCancelled=false otherwise.
C11_ConfirmMirrorsSigner ==
    [][/\ SignStep("signResolved") =>
                (Len(NewMsgs) = 1 /\ SuccessResult(NewMsgs[1]))
       /\ (SignStep("signRejected") /\ lastEvent'.arg = "rejected") =>
                (/\ Len(NewMsgs) = 1
                 /\ FailureResult(NewMsgs[1], "USER_REJECTED", TRUE))
       /\ (SignStep("signRejected") /\ lastEvent'.arg # "rejected") =>
                (/\ Len(NewMsgs) = 1
                 /\ FailureResult(NewMsgs[1], "TRANSACTION_FAILED", FALSE))
       /\ \A t \in timers : (t.kind = "mockTx" /\ TimerRuns(t)) =>
                (Len(NewMsgs) = 1 /\ SuccessResult(NewMsgs[1]))]_vars

\* the signer has just reported a rejection for an approved transaction and
\* the result has been posted
C11_Witness ==
    /\ lastEvent.name = "signRejected"
    /\ lastEvent.arg = "rejected"
    /\ Len(outbox) > 0
    /\ FailureResult(outbox[Len(outbox)], "USER_REJECTED", TRUE)
    /\ outbox[Len(outbox)].cause[2] = "approveRepayRequest"
    /\ outbox[Len(outbox)].rid \in RepayIds
    /\ outbox[Len(outbox)].posted

\* ---- C12

\* the simulated signatures whose result is still to be sent
MockSigns == {t \in timers : t.kind = "mockTx"}

\* the request ids of the transactions the page is working on: the one shown
\* for confirmation and those being signed
InFlightIds ==
    {s.rid : s \in signs} \cup {t.rid : t \in MockSigns}
        \cup (IF pendingRepayRequest = NoRepayRequest
              THEN {} ELSE {pendingRepayRequest.requestId})

\* C12 (at most one transaction in flight): at every moment at most one
\* accepted REPAY_REQUEST is awaiting confirmation or being signed without
\* its REPAY_RESULT sent, and two signing attempts are never in progress at
\* the same time.
C12_AtMostOneInFlight ==
    /\ Cardinality(signs) + Cardinality(MockSigns) <= 1
    /\ Cardinality(InFlightIds) <= 1

\* ---- C13

RepayRequestStep == MessageStep /\ lastEvent'.name = "REPAY_REQUEST"

\* C13 (a second request must not drop the first): when a REPAY_REQUEST
\* arrives while another one is pending, the pending one stays in flight
\* (the newcomer being queued or rejected) or a REPAY_RESULT carrying its
\* requestId is sent; it is never discarded silently.
C13_SecondKeepsFirst ==
    [][(RepayRequestStep /\ pendingRepayRequest # NoRepayRequest) =>
            \/ pendingRepayRequest.requestId \in InFlightIds'
            \/ \E i \in 1 .. Len(NewMsgs) :
                    /\ NewMsgs[i].type = "REPAY_RESULT"
                    /\ NewMsgs[i].rid = pendingRepayRequest.requestId]_vars

\* ---- C14

ApproveStep ==
    /\ lastEvent'.kind = "user"
    /\ lastEvent'.name = "approveRepayRequest"
    /\ nEvents' = nEvents + 1

\* the step sends exactly one REPAY_RESULT, with the given requestId
SendsResultFor(rid) ==
    /\ Len(NewMsgs) = 1
    /\ NewMsgs[1].type = "REPAY_RESULT"
    /\ NewMsgs[1].rid = rid

\* C14 (correlation key of results): every REPAY_RESULT, whether sent by
\* approve after the signer succeeded or failed, by the simulated signature
\* or by reject, carries the requestId of a REPAY_REQUEST received earlier:
\* the one in the slot when confirm or reject was invoked, also when another
\* REPAY_REQUEST has arrived before the result is sent.
C14_ResultCorrelation ==
    [][/\ (pendingRepayRequest' # pendingRepayRequest
                /\ pendingRepayRequest' # NoRepayRequest) =>
            (/\ RepayRequestStep
             /\ pendingRepayRequest'.requestId = lastEvent'.data.rid)
       /\ ApproveStep =>
            (/\ \A s \in signs' \ signs :
                    s.rid = pendingRepayRequest.requestId
             /\ \A t \in MockSigns' \ MockSigns :
                    t.rid = pendingRepayRequest.requestId)
       /\ \A s \in signs \ signs' : SendsResultFor(s.rid)
       /\ \A t \in MockSigns \ MockSigns' : SendsResultFor(t.rid)
       /\ (RejectStep /\ pendingRepayRequest # NoRepayRequest) =>
            SendsResultFor(pendingRepayRequest.requestId)
       /\ (\E i \in 1 .. Len(NewMsgs) : NewMsgs[i].type = "REPAY_RESULT") =>
            \/ signs \ signs' # {}
            \/ MockSigns \ MockSigns' # {}
            \/ RejectStep /\ pendingRepayRequest # NoRepayRequest]_vars

\* the result of an approved request has just been posted while a later
\* REPAY_REQUEST with another id occupies the slot
C14_Witness ==
    /\ lastEvent.kind = "timer"
    /\ lastEvent.name = "mockTx"
    /\ pendingRepayRequest # NoRepayRequest
    /\ Len(outbox) > 0
    /\ outbox[Len(outbox)].type = "REPAY_RESULT"
    /\ outbox[Len(outbox)].rid \in RepayIds
    /\ outbox[Len(outbox)].rid # pendingRepayRequest.requestId
    /\ outbox[Len(outbox)].posted

\* ---- C15

ReadyStep == MessageStep /\ lastEvent'.name = "TLEND_READY"

\* C15 (ready notification): on receiving TLEND_READY the lifecycle state
\* becomes READY, whatever the prior state, the wallet connectivity and the
\* skip-auth setting.
C15_ReadyNotification == [][ReadyStep => tlendState' = "READY"]_vars

\* ---- C16

\* C16 (happy-path liveness): with a wallet connected and skip-auth unset,
\* once the iframe has sent TLEND_LOADED, answered the AUTH_CHECK_REQUEST
\* with authenticated=false, answered the AUTH_CREDENTIALS with success and
\* sent TLEND_READY, and the handshake has quiesced (no deferred send and no
\* request is left), the lifecycle state is READY.
C16_HappyPathReady ==
    (nEvents >= 4 /\ timers = {} /\ pendingRequests = {}) =>
        tlendState = "READY"

\* ---- C17

\* an AUTH_RESULT whose payload can be read
AuthResultStep ==
    /\ MessageStep
    /\ lastEvent'.name = "AUTH_RESULT"
    /\ lastEvent'.data.payload.present

\* C17 (auth failure handling): on AUTH_RESULT with success=false the
\* lifecycle state becomes READY when the immediate-ready override is set and
\* ERROR when it is not; in both cases the pending entry of that requestId is
\* removed and its timer cancelled.
C17_AuthFailure ==
    [][(AuthResultStep /\ ~ lastEvent'.data.payload.success) =>
            /\ tlendState' = IF autoReadyMode = "immediate"
                             THEN "READY" ELSE "ERROR"
            /\ ~ \E q \in pendingRequests' : q.rid = lastEvent'.data.rid
            /\ HasPending(lastEvent'.data.rid) =>
                    \A t \in timers' :
                        ~ (t.rid = lastEvent'.data.rid
                           /\ t.kind \in {"authCheckTimeout",
                                          "authCredentialsTimeout"})]_vars

\* a pending AUTH_CREDENTIALS has just been answered with a failure, with the
\* override unset
C17_Witness ==
    /\ lastEvent.kind = "message"
    /\ lastEvent.name = "AUTH_RESULT"
    /\ lastEvent.data.payload.present
    /\ ~ lastEvent.data.payload.success
    /\ lastEvent.data.rid \in replied
    /\ ~ Armed(lastEvent.data.rid)
    /\ autoReadyMode # "immediate"
    /\ tlendState = "ERROR"

\* ---- C18

\* the step moves the lifecycle state into READY
BecomesReady == tlendState # "READY" /\ tlendState' = "READY"

ForceStep ==
    /\ lastEvent'.kind = "user"
    /\ lastEvent'.name = "forceSetReady"
    /\ nEvents' = nEvents + 1

\* AUTH_RESULT success stores the address and leaves the lifecycle state
SuccessStoresAddress ==
    (AuthResultStep /\ lastEvent'.data.payload.success) =>
        /\ tlendState' = tlendState
        /\ walletAddress' = lastEvent'.data.payload.address

\* C18 as claimed (READY is remote-asserted): while the immediate-ready
\* override is unset, every transition into READY is caused by the receipt of
\* TLEND_READY or by forceSetReady; AUTH_RESULT success stores the address
\* and never changes the lifecycle state.
C18_ReadyRemoteAsserted ==
    [][/\ (BecomesReady /\ autoReadyMode # "immediate") =>
                (ReadyStep \/ ForceStep)
       /\ SuccessStoresAddress]_vars

\* the step runs a deferred READY (scheduled after TLEND_LOADED or after the
\* iframe's load event)
DeferredReadyRuns ==
    \E t \in timers : t.kind \in {"ready", "onloadReady"} /\ TimerRuns(t)

\* C18 as amended: every transition into READY is caused by the receipt of
\* TLEND_READY, by forceSetReady, by a handler that finds the immediate-ready
\* override set (AUTH_RESULT failure, AUTH_CREDENTIALS timeout), or by a
\* deferred READY; a deferred READY is scheduled only while the override and
\* skip-auth are both set, but it still runs if the override is unset before
\* it fires.  AUTH_RESULT success stores the address and never changes the
\* lifecycle state.
C18_ReadyRemoteOrOverride ==
    [][/\ BecomesReady =>
            \/ ReadyStep
            \/ ForceStep
            \/ DeferredReadyRuns
            \/ /\ autoReadyMode = "immediate"
               /\ \/ AuthResultStep /\ ~ lastEvent'.data.payload.success
                  \/ /\ lastEvent'.kind = "timer"
                     /\ lastEvent'.name = "authCredentialsTimeout"
       /\ \A t \in timers' \ timers :
            t.kind \in {"ready", "onloadReady"} =>
                (autoReadyMode = "immediate" /\ skipAuth)
       /\ SuccessStoresAddress]_vars

\* a deferred READY has just moved the state to READY although the override
\* has been unset since it was scheduled
C18_Witness ==
    /\ lastEvent.kind = "timer"
    /\ lastEvent.name \in {"ready", "onloadReady"}
    /\ autoReadyMode # "immediate"
    /\ tlendState = "READY"

\* ---- C19

\* the position of a non-error lifecycle state in LOADING, PENDING_AUTH, READY
Rank(st) ==
    CASE st = "LOADING" -> 1
      [] st = "PENDING_AUTH" -> 2
      [] st = "READY" -> 3
      [] OTHER -> 0

\* the step is a load: loadIframe, reloadIframe or the receipt of TLEND_LOADED
LoadStep ==
    /\ nEvents' = nEvents + 1
    /\ \/ lastEvent'.kind = "user"
          /\ lastEvent'.name \in {"loadIframe", "reloadIframe"}
       \/ lastEvent'.kind = "message" /\ lastEvent'.name = "TLEND_LOADED"

\* the step moves the lifecycle state backward among the non-error states
MovesBackward ==
    /\ Rank(tlendState) > 0
    /\ Rank(tlendState') > 0
    /\ Rank(tlendState') < Rank(tlendState)

\* C19 as claimed (lifecycle ordering): between loads the lifecycle state
\* only moves forward in the order LOADING, PENDING_AUTH, READY, or into
\* ERROR; nothing but a load moves it backward among the non-error states.
C19_LifecycleOrdering == [][MovesBackward => LoadStep]_vars

\* ---- C20

DisconnectStep ==
    /\ lastEvent'.kind = "user"
    /\ lastEvent'.name = "walletDisconnected"
    /\ nEvents' = nEvents + 1

\* C20 (local wallet disconnect): when the wallet reports a disconnect the
\* stored address, account and proof are cleared; a DISCONNECT with reason
\* user_initiated is sent if and only if the wallet was connected and
\* iframeLoaded is true; a disconnect while already disconnected sends
\* nothing.
C20_WalletDisconnect ==
    [][DisconnectStep =>
            /\ ~ walletConnected'
            /\ walletAddress' = NULL
            /\ walletAccount' = NULL
            /\ tonProof' = FALSE
            /\ IF walletConnected /\ iframeLoaded
               THEN /\ SendsOne("DISCONNECT", <<nEvents', "walletDisconnected">>)
                    /\ NewMsgs[1].reason = "user_initiated"
               ELSE outbox' = outbox]_vars

\* a connected wallet has just disconnected from a loaded iframe and the
\* DISCONNECT has been posted
C20_Witness ==
    /\ lastEvent.kind = "user"
    /\ lastEvent.name = "walletDisconnected"
    /\ ~ walletConnected
    /\ walletAddress = NULL
    /\ iframeLoaded
    /\ Len(outbox) > 0
    /\ outbox[Len(outbox)].type = "DISCONNECT"
    /\ outbox[Len(outbox)].reason = "user_initiated"
    /\ outbox[Len(outbox)].cause = <<nEvents, "walletDisconnected">>
    /\ outbox[Len(outbox)].posted

\* the verifier has just judged, with the issuer's secret, the payload exactly
\* as the issuer made it
VerifiedAsIssued ==
    /\ codec.op = "verify"
    /\ codec.issued # << >>
    /\ codec.payload = codec.issued
    /\ codec.key = codec.secret

\* the clock reading lies before t and t is at most the window away
InWindow(now, t) == Before(now, t) /\ ~ Before(Plus(now, MAX_WINDOW), t)

\* C21: a payload made by generatePayload is accepted by
\* verifyPartnerPayload under the same secret at every clock reading that
\* lies before the expiration written into it and at most the maximum
\* window before it.
C21_RoundTrip ==
    (VerifiedAsIssued /\ InWindow(codec.now, codec.expiration))
        => codec.verdict = TRUE

\* an issued payload is accepted one second before it expires
C21_Witness ==
    /\ VerifiedAsIssued
    /\ codec.ticks > 0
    /\ Plus(codec.now, 1) = codec.expiration
    /\ codec.verdict = TRUE

\* C22: verifyPartnerPayload returns true only for a payload that decodes
\* to exactly 32 bytes, whose expiration lies strictly in the future and at
\* most the maximum window ahead, and whose last 28 bytes are the truncated
\* HMAC of its first 4 bytes under the given secret.
C22_Soundness ==
    (codec.op = "verify" /\ codec.verdict = TRUE) =>
        LET payloadBuffer == fromHex(codec.payload)
        IN  /\ Len(payloadBuffer) = PAYLOAD_LENGTH
            /\ InWindow(codec.now, readUInt32BE(payloadBuffer))
            /\ SubSeq(payloadBuffer, EXPIRATION_LENGTH + 1, PAYLOAD_LENGTH)
                 = Signature(codec.key,
                             SubSeq(payloadBuffer, 1, EXPIRATION_LENGTH))

\* the last callback handled an inbound object of one of the thirteen types
ValidTypeReceived ==
    /\ lastEvent.kind = "message"
    /\ lastEvent.data.object
    /\ isValidMessageType(lastEvent.data.type)

\* C23: for a message of any of the thirteen valid types exactly one of
\* isTLendToPartnerMessage and isPartnerToTLendMessage is true, and
\* handleMessage passes the message to a handler exactly when
\* isTLendToPartnerMessage is true of it.
C23_DirectionPartition ==
    ValidTypeReceived =>
        /\ isTLendToPartnerMessage(lastEvent.data)
             # isPartnerToTLendMessage(lastEvent.data)
        /\ (lastEvent.handler # "default")
             <=> isTLendToPartnerMessage(lastEvent.data)

\* an ERROR message reached handleError after a partner-only type was dropped
C23_Witness ==
    /\ ValidTypeReceived
    /\ lastEvent.data.type = "ERROR"
    /\ lastEvent.handler = "handleError"
    /\ nEvents = MaxDirectionEvents

\* C24 (re-auth leaves the lifecycle state unchanged): receiving
\* AUTH_REQUEST while the wallet is connected does not change the lifecycle
\* state.
C24_ReauthKeepsState ==
    [][(AuthRequestStep /\ walletConnected) => tlendState' = tlendState]_vars

\* the step emits a REPAY_RESULT
SendsResult ==
    \E i \in 1..Len(NewMsgs) : NewMsgs[i].type = "REPAY_RESULT"

\* C25 (slot lifetime equals result emission): the pending-transaction slot
\* that holds request r keeps holding r until a REPAY_RESULT for r is
\* emitted, and right after any REPAY_RESULT is emitted the slot is empty,
\* on confirm (real and simulated signing) and on reject.
C25_SlotLifetime ==
    [][/\ (pendingRepayRequest # NoRepayRequest
            /\ pendingRepayRequest' # pendingRepayRequest)
          => SendsResultFor(pendingRepayRequest.requestId)
       /\ SendsResult => pendingRepayRequest' = NoRepayRequest]_vars

\* C26 (leaving ERROR): once the lifecycle state is ERROR it stays ERROR
\* until a load (loadIframe, reloadIframe, TLEND_LOADED) or the manual
\* override; no other inbound message and no timer moves it out of ERROR.
C26_ErrorUntilLoadOrOverride ==
    [][(tlendState = "ERROR" /\ tlendState' # "ERROR")
          => (LoadStep \/ ForceStep)]_vars

\* the step handles an inbound ERROR message that carries a payload
ErrorStep ==
    /\ MessageStep
    /\ lastEvent'.name = "ERROR"
    /\ lastEvent'.data.payload.present

\* the callback that ran last handled an ERROR message with recoverable=false
FatalErrorReceived ==
    /\ lastEvent.kind = "message"
    /\ lastEvent.name = "ERROR"
    /\ lastEvent.data.payload.present
    /\ ~ lastEvent.data.payload.recoverable

\* the step is a timer or the handling of an inbound message
AutomaticStep == lastEvent'.kind \in {"timer", "message"}

\* the step emits an AUTH_CHECK_REQUEST or an AUTH_CREDENTIALS
SendsAuth ==
    \E i \in 1..Len(NewMsgs) :
        NewMsgs[i].type \in {"AUTH_CHECK_REQUEST", "AUTH_CREDENTIALS"}

\* C27 (error notification): an ERROR message with recoverable=false sets
\* the lifecycle state to ERROR and one with recoverable=true leaves it
\* unchanged; after the former no timer and no inbound message makes the
\* mock emit AUTH_CHECK_REQUEST or AUTH_CREDENTIALS (stated here for the
\* callback that runs next).
C27_ErrorNotification ==
    [][/\ (ErrorStep /\ ~ lastEvent'.data.payload.recoverable)
            => tlendState' = "ERROR"
       /\ (ErrorStep /\ lastEvent'.data.payload.recoverable)
            => tlendState' = tlendState
       /\ (FatalErrorReceived /\ AutomaticStep) => ~ SendsAuth]_vars

\* the step is a call of loadIframe or reloadIframe
ReloadStep ==
    /\ lastEvent'.kind = "user"
    /\ lastEvent'.name \in {"loadIframe", "reloadIframe"}
    /\ nEvents' = nEvents + 1

\* the call has something to load: loadIframe finds a URL in the field,
\* reloadIframe finds an iframe in the container
HasTarget ==
    \/ lastEvent'.name = "loadIframe" /\ lastEvent'.arg = "url"
    \/ lastEvent'.name = "reloadIframe" /\ hasIframe

SessionReset ==
    /\ tlendState' = "LOADING"
    /\ iframeLoaded' = FALSE
    /\ pendingRequests' = {}

\* C28 as claimed (reload resets the session): right after loadIframe or
\* reloadIframe the lifecycle state is LOADING, iframeLoaded is false and
\* pendingRequests is empty, and the wallet fields are unchanged.
C28_ReloadResets ==
    [][ReloadStep => (SessionReset /\ UNCHANGED walletVars)]_vars

\* C28 as amended: a loadIframe that finds a URL and a reloadIframe that
\* finds an iframe leave the lifecycle state LOADING, iframeLoaded false and
\* pendingRequests empty; a loadIframe without a URL and a reloadIframe
\* without an iframe change none of the three; the wallet fields are
\* unchanged in every case.
C28_ReloadResetsWithTarget ==
    [][ReloadStep =>
          /\ HasTarget => SessionReset
          /\ ~ HasTarget =>
                UNCHANGED <<tlendState, iframeLoaded, pendingRequests>>
          /\ UNCHANGED walletVars]_vars

\* reloadIframe has just dropped an in-flight request of a loaded session
C28_Witness ==
    /\ lastEvent.kind = "user"
    /\ lastEvent.name = "reloadIframe"
    /\ cleared # {}
    /\ iframeLoaded = FALSE
    /\ tlendVersion # NULL
    /\ tlendState = "LOADING"
    /\ pendingRequests = {}
    /\ walletConnected

\* the step submits the stored proof in an AUTH_CREDENTIALS message
SubmitsStoredProof ==
    \E i \in 1..Len(NewMsgs) :
        NewMsgs[i].type = "AUTH_CREDENTIALS" /\ NewMsgs[i].proof = "real"

\* C29 (credential proof is single-use): the stored proof is cleared by a
\* wallet disconnect and by the AUTH_CREDENTIALS submission that consumes
\* it, so that no later submission can carry the same stored proof.
C29_ProofSingleUse ==
    [][/\ SubmitsStoredProof => ~ tonProof'
       /\ DisconnectStep => ~ tonProof']_vars

\* C30 (no exception across the trust boundary): the handling of an inbound
\* message, with or without a payload, completes without raising an
\* exception.
C30_NoException == lastEvent.kind = "message" => ~ lastEvent.threw

\* the payload of the REPAY_REQUEST being handled has the required shape
\* (the model tells a payload with transaction.messages from one without,
\* and from an absent payload)
WellFormedRepay ==
    /\ lastEvent'.data.payload.present
    /\ lastEvent'.data.payload.transaction

\* C31 (transaction-request shape check): a REPAY_REQUEST without the
\* required fields is rejected and never becomes the pending transaction;
\* the slot is left as it was.
C31_ShapeCheck ==
    [][(RepayRequestStep /\ ~ WellFormedRepay)
          => pendingRepayRequest' = pendingRepayRequest]_vars

\* the step is the timeout callback of timer t, run while its request is
\* still pending
TimesOut(t, kind) ==
    /\ t.kind = kind
    /\ TimerRuns(t)
    /\ lastEvent' = TimerEvent(t)
    /\ HasPending(t.rid)

EntryRemoved(rid) == \A p \in pendingRequests' : p.rid # rid

\* C32 (timeout fallback policy): when an AUTH_CREDENTIALS request times out
\* the lifecycle state becomes READY if the immediate-ready configuration is
\* set and is unchanged otherwise; when an AUTH_CHECK_REQUEST times out the
\* lifecycle state is unchanged.  In both cases the entry is removed and
\* nothing is sent.
C32_TimeoutFallback ==
    [][\A t \in timers :
         /\ TimesOut(t, "authCredentialsTimeout") =>
              /\ tlendState' = IF autoReadyMode = "immediate"
                               THEN "READY" ELSE tlendState
              /\ EntryRemoved(t.rid)
              /\ outbox' = outbox
         /\ TimesOut(t, "authCheckTimeout") =>
              /\ tlendState' = tlendState
              /\ EntryRemoved(t.rid)
              /\ outbox' = outbox]_vars

\* a credentials request, sent by hand before the iframe was loaded, has
\* timed out in immediate mode and the session is READY
C32_Witness ==
    /\ lastEvent.kind = "timer"
    /\ lastEvent.name = "authCredentialsTimeout"
    /\ timedOut # {}
    /\ autoReadyMode = "immediate"
    /\ ~ iframeLoaded
    /\ tlendState = "READY"

\* the callback that ran last handled a TLEND_LOADED message
LoadedReceived == lastEvent.kind = "message" /\ lastEvent.name = "TLEND_LOADED"

\* a message of the given type, sent because of a TLEND_LOADED, is in the
\* outbox
SentAfterLoaded(type) ==
    \E i \in 1..Len(outbox) :
        outbox[i].type = type /\ outbox[i].cause[2] = "TLEND_LOADED"

\* what the receipt of TLEND_LOADED makes the mock send is styling only
LoadedSendsStylingOnly ==
    \A i \in 1..Len(NewMsgs) :
        NewMsgs[i].cause[2] = "TLEND_LOADED"
            => NewMsgs[i].type \in {"STYLES_UPGRADE", "SET_LOGO"}

C34_AllowedTarget ==
    \A i \in 1..Len(outbox) :
        outbox[i].posted => outbox[i].target \in TLEND_ORIGINS

\* C35 (at most one result per request): no two REPAY_RESULT messages carry
\* the same requestId, also when confirm or reject is invoked again while a
\* signing call for the request is still awaiting its outcome.
C35_OneResultPerRequest ==
    \A i, j \in 1..Len(outbox) :
        (/\ i < j
         /\ outbox[i].type = "REPAY_RESULT"
         /\ outbox[j].type = "REPAY_RESULT") => outbox[i].rid # outbox[j].rid

\* the step is the completion, with success or failure, of signing call s
SignCompletes(s) ==
    /\ SignStep("signResolved") \/ SignStep("signRejected")
    /\ s \in signs
    /\ s \notin signs'

\* C36 (a request arriving during signing is not lost): when a signing call
\* completes while the slot holds a request other than the one being
\* signed, that request is still the pending transaction afterwards.
C36_NewRequestKept ==
    [][\A s \in signs :
         (/\ SignCompletes(s)
          /\ pendingRepayRequest # NoRepayRequest
          /\ pendingRepayRequest.requestId # s.rid)
            => pendingRepayRequest' = pendingRepayRequest]_vars

\* the step handles a reply of the given type while entry p is pending
ReplyOfType(type) == MessageStep /\ lastEvent'.name = type

\* C37 (replies close only requests of their own kind): an AUTH_RESULT
\* removes only a pending entry of kind AUTH_CREDENTIALS and an
\* AUTH_CHECK_RESPONSE only one of kind AUTH_CHECK; a reply of the other kind
\* with the same requestId leaves the entry in place.
C37_ReplyKind ==
    [][\A p \in pendingRequests :
         /\ (ReplyOfType("AUTH_RESULT") /\ p.type # "AUTH_CREDENTIALS")
                => p \in pendingRequests'
         /\ (ReplyOfType("AUTH_CHECK_RESPONSE") /\ p.type # "AUTH_CHECK")
                => p \in pendingRequests']_vars

\* C38 (no auth message while the wallet is disconnected): whenever
\* walletConnected is false the stored wallet address is null, and no step
\* taken while walletConnected is false emits an AUTH_CHECK_REQUEST or an
\* AUTH_CREDENTIALS.
C38_NoAuthWhileDisconnected ==
    [][/\ ~ walletConnected' => walletAddress' = NULL
       /\ ~ walletConnected => ~ SendsAuth]_vars

\* the callback that ran last was a loadIframe or reloadIframe that reset the
\* session; every timer still pending was created before it
JustReloaded ==
    /\ lastEvent.kind = "user"
    /\ \/ lastEvent.name = "loadIframe" /\ lastEvent.arg = "url"
       \/ lastEvent.name = "reloadIframe" /\ hasIframe

\* C39 (deferred sends do not cross a reload): a deferred action scheduled
\* before loadIframe or reloadIframe emits no message, registers no pending
\* request and changes no lifecycle state once the reload has reset the
\* session (stated here for the timer that runs next after the reload).
C39_NoDeferredAcrossReload ==
    [][(JustReloaded /\ lastEvent'.kind = "timer") =>
          /\ outbox' = outbox
          /\ pendingRequests' = pendingRequests
          /\ tlendState' = tlendState]_vars

\* C40 (a pending transaction does not survive a reload): after a loadIframe
\* or reloadIframe that resets the session the pending-transaction slot is
\* empty.
C40_SlotClearedByReload ==
    [][(ReloadStep /\ HasTarget) => pendingRepayRequest' = NoRepayRequest]_vars

====
